---- MODULE Spec2Model ----
(***************************************************************************)
(* Text-to-text P-Tune dataset pipeline of                                 *)
(* nemo/collections/nlp/data/glue_benchmark/text2text_ptune_dataset.py:    *)
(* example parsing, the P-Tune query builder, feature conversion and batch *)
(* collation.                                                              *)
(*                                                                         *)
(* Representation.  A text is a sequence of words; the tokenizer is a      *)
(* word-level vocabulary lookup.  A Python list is a sequence, Python      *)
(* slices are computed with Python's index normalisation (negative         *)
(* indices count from the end, out-of-range indices are clamped).          *)
(***************************************************************************)
EXTENDS Integers, Sequences, FiniteSets, TLC

---------------------------------------------------------------------------
(* Bounds of the model *)

\* data rows in an input file
MaxRows == 2
\* virtual tokens on each side of the template
MaxTemplate == 1
\* largest max_seq_length / max_seq_len tried
MaxSeqLen == 6
\* largest max_seq_length_decoder tried
MaxDecLen == 4
\* rows in a batch handed to collate_fn
MaxBatch == 2
\* words in a sentence passed directly to get_ptune_query
MaxTextLen == 2
\* longest sequence of an item handed directly to collate_fn
MaxItemLen == 2
\* most records the log holds after a GPTQAModel call that found it non-empty
MaxLogRecords == 2
\* examples and features handed directly to _get_predictions
MaxExamples == 2
MaxFeatures == 3

---------------------------------------------------------------------------
(* Python list primitives *)

Min(a, b) == IF a < b THEN a ELSE b
Max(a, b) == IF a > b THEN a ELSE b

\* Python's normalisation of a slice bound i for a list of length n
PyIndex(n, i) == IF i < 0 THEN Max(n + i, 0) ELSE Min(i, n)

\* s[lo:]
SliceFrom(s, lo) == SubSeq(s, PyIndex(Len(s), lo) + 1, Len(s))

\* s[:hi]
SliceTo(s, hi) == SubSeq(s, 1, PyIndex(Len(s), hi))

\* [x] * k   (empty when k <= 0)
Repeat(x, k) == [i \in 1..k |-> x]

\* max([len(item) for item in items]), items non-empty
MaxLen(items) == CHOOSE m \in {Len(items[i]) : i \in 1..Len(items)} :
                    \A i \in 1..Len(items) : Len(items[i]) <= m

\* all sequences over S of length at most n
SeqsUpTo(S, n) == UNION {[1..k -> S] : k \in 0..n}

---------------------------------------------------------------------------
(* Tokenizer collaborator: word-level vocabulary *)

Words == {"<pad>", "<s>", "</s>", "mnli", "hypothesis:", "premise:",
          "x", "y", "entailment", "neutral", "f", "[PROMPT]"}

vocab == [w \in Words |->
            CASE w = "<pad>"       -> 0
              [] w = "<s>"         -> 1
              [] w = "</s>"        -> 2
              [] w = "mnli"        -> 3
              [] w = "hypothesis:" -> 4
              [] w = "premise:"    -> 5
              [] w = "x"           -> 6
              [] w = "y"           -> 7
              [] w = "entailment"  -> 8
              [] w = "neutral"     -> 9
              [] w = "f"           -> 10
              [] w = "[PROMPT]"    -> 11]

pad_id == vocab["<pad>"]
bos_id == vocab["<s>"]
eos_id == vocab["</s>"]

text_to_ids(text) == [i \in 1..Len(text) |-> vocab[text[i]]]

---------------------------------------------------------------------------
(* Example Store: MnliProcessor / XNliProcessor *)

\* variant of guid_of: the two sides of the separator are exchanged
guid_sides_swapped(set_type, col0) == col0 \o <<"-">> \o set_type

\* "%s-%s" % (set_type, line[0])
guid_of(set_type, col0) == set_type \o <<"-">> \o col0

InputExample(guid, text_a, text_b, label) ==
    [guid |-> guid, text_a |-> text_a, text_b |-> text_b, label |-> label]

\* MnliProcessor._create_examples: row 0 is the header
Mnli_create_examples(lns, set_type) ==
    [k \in 1..(Len(lns) - 1) |->
        LET line == lns[k + 1] IN
        InputExample(guid_of(set_type, line[1]), line[9], line[10], line[Len(line)])]

\* XNliProcessor._create_examples
XNli_create_examples(lns, set_type) ==
    [k \in 1..(Len(lns) - 1) |->
        LET line == lns[k + 1] IN
        InputExample(guid_of(set_type, line[1]), line[7], line[8], line[2])]

processors == {"mnli", "xnli"}

\* variant of get_examples: the examples come out in reverse file order
get_examples_reversed(task, lns, set_type) ==
    LET exs == IF task = "mnli" THEN Mnli_create_examples(lns, set_type)
                                ELSE XNli_create_examples(lns, set_type)
    IN  [k \in 1..Len(exs) |-> exs[Len(exs) + 1 - k]]

get_examples(task, lns, set_type) ==
    IF task = "mnli" THEN Mnli_create_examples(lns, set_type)
                     ELSE XNli_create_examples(lns, set_type)

label2string(label) == label

\* whether the Python index i exists in a list: line[i] raises IndexError otherwise
HasIndex(line, i) == IF i >= 0 THEN i < Len(line) ELSE -i <= Len(line)

\* the cells MnliProcessor._create_examples reads from a row
Mnli_row_ok(line) ==
    HasIndex(line, 0) /\ HasIndex(line, 8) /\ HasIndex(line, 9) /\ HasIndex(line, -1)

\* the cells XNliProcessor._create_examples reads from a row
XNli_row_ok(line) ==
    HasIndex(line, 0) /\ HasIndex(line, 6) /\ HasIndex(line, 7) /\ HasIndex(line, 1)

row_ok(task, line) == IF task = "mnli" THEN Mnli_row_ok(line) ELSE XNli_row_ok(line)

\* the positions (header = 1) of the rows on which _create_examples raises
bad_rows(task, lns) == {k \in 2..Len(lns) : ~row_ok(task, lns[k])}

NoError == [type |-> "none", names |-> {}]

\* variant of init_error: the rows are read before the task name is looked up
init_error_rows_first(task, lns) ==
    IF bad_rows(task, lns) # {} THEN [type |-> "IndexError", names |-> {}]
    ELSE IF task \notin processors THEN [type |-> "ValueError", names |-> processors]
    ELSE NoError

\* the exception TaskDataset.__init__ raises, if any: the task name is looked up
\* in processors before the file is read
init_error(task, lns) ==
    IF task \notin processors THEN [type |-> "ValueError", names |-> processors]
    ELSE IF bad_rows(task, lns) # {} THEN [type |-> "IndexError", names |-> {}]
    ELSE NoError

---------------------------------------------------------------------------
(* Query Builder: MnliProcessor.get_ptune_query (inherited by XNliProcessor) *)

\* f"mnli hypothesis: {text_a} premise: {text_b}"
full_sentence(text_a, text_b) ==
    <<"mnli", "hypothesis:">> \o text_a \o <<"premise:">> \o text_b

\* sum(templates): the sum of a list of integers
RECURSIVE py_sum(_)
py_sum(xs) == IF xs = <<>> THEN 0 ELSE Head(xs) + py_sum(Tail(xs))

\* variant of query_cut: the overflow is taken one token short
query_cut_short(input_token_ids, max_seq_len, tmpl) ==
    IF Len(input_token_ids) + py_sum(tmpl) > max_seq_len
    THEN Len(input_token_ids) + py_sum(tmpl) - max_seq_len - 1
    ELSE 0

\* the overflow computed at lines 136-139
query_cut(input_token_ids, max_seq_len, tmpl) ==
    IF Len(input_token_ids) + py_sum(tmpl) > max_seq_len
    THEN Len(input_token_ids) + py_sum(tmpl) - max_seq_len
    ELSE 0

\* logging.warning(...) at line 138
TruncationWarning ==
    [level |-> "warning",
     msg |-> "Input sequence is longer than the LM model max seq, will cut it off to fit"]

\* what one get_ptune_query call writes to the log
get_ptune_query_log(text_a, text_b, max_seq_len, tmpl) ==
    LET input_token_ids == text_to_ids(full_sentence(text_a, text_b)) IN
    IF Len(input_token_ids) + py_sum(tmpl) > max_seq_len
    THEN <<TruncationWarning>> ELSE <<>>

\* variant of get_ptune_query: the assembled sequence is cut, placeholders included
get_ptune_query_cut_all(text_a, text_b, prompt_token_id, max_seq_len, tmpl) ==
    LET input_token_ids == text_to_ids(full_sentence(text_a, text_b))
        cut == query_cut(input_token_ids, max_seq_len, tmpl)
    IN  SliceFrom(Repeat(prompt_token_id, tmpl[1])
                    \o input_token_ids
                    \o Repeat(prompt_token_id, tmpl[2]), cut)

\* MnliProcessor.get_ptune_query: templates[0] placeholders, the tokenization
\* without its first cut ids, templates[1] placeholders
get_ptune_query(text_a, text_b, prompt_token_id, max_seq_len, tmpl) ==
    LET input_token_ids == text_to_ids(full_sentence(text_a, text_b))
        cut == query_cut(input_token_ids, max_seq_len, tmpl)
    IN  Repeat(prompt_token_id, tmpl[1])
          \o SliceFrom(input_token_ids, cut)
          \o Repeat(prompt_token_id, tmpl[2])

---------------------------------------------------------------------------
(* Feature Converter: convert_examples_to_features *)

\* the overflow of the label content computed at lines 310-313 / 382-385
dec_cut(dec_content_ids, max_dec) ==
    IF Len(dec_content_ids) + 2 > max_dec
    THEN Len(dec_content_ids) + 2 - max_dec
    ELSE 0

\* variant of dec_query_of: the whole marked query is cut to max_dec
dec_query_cut_whole(dec_content_ids, max_dec) ==
    SliceTo(<<bos_id>> \o dec_content_ids \o <<eos_id>>, Max(max_dec, 0))

\* [bos] + dec_content_ids[:(len(dec_content_ids) - cut)] + [eos]
dec_query_of(dec_content_ids, max_dec) ==
    <<bos_id>>
      \o SliceTo(dec_content_ids, Len(dec_content_ids) - dec_cut(dec_content_ids, max_dec))
      \o <<eos_id>>

\* variant of dec_input_of: the end marker is left in the decoder input
dec_input_whole(dec_query) == dec_query

\* dec_query[:-1]
dec_input_of(dec_query) == SliceTo(dec_query, -1)

\* variant of labels_of: the labels are not shifted
labels_unshifted(dec_query) == dec_query

\* dec_query[1:]
labels_of(dec_query) == SliceFrom(dec_query, 1)

\* variant of enc_hard_cap: the cap is missing
enc_no_cap(enc_query, max_len) == enc_query

\* lines 308-309: the hard cap of the mnli/PTune dataset
enc_hard_cap(enc_query, max_len) ==
    IF Len(enc_query) > max_len THEN SliceTo(enc_query, max_len) ELSE enc_query

\* str.split(sep): the segments between occurrences of sep
RECURSIVE split(_, _)
split(s, sep) ==
    IF \A i \in 1..Len(s) : s[i] # sep
    THEN <<s>>
    ELSE LET i == CHOOSE j \in 1..Len(s) :
                    s[j] = sep /\ \A h \in 1..(j - 1) : s[h] # sep
         IN  <<SubSeq(s, 1, i - 1)>> \o split(SubSeq(s, i + 1, Len(s)), sep)

\* variant of PTune_feature: the marked decoder query is cut as a whole
PTune_feature_dec_capped(example, prompt_id, max_len, max_dec, tmpl) ==
    LET enc_query == enc_hard_cap(
                        get_ptune_query(example.text_a, example.text_b,
                                        prompt_id, max_len, tmpl),
                        max_len)
        dec_query == SliceTo(<<bos_id>> \o text_to_ids(label2string(example.label))
                                \o <<eos_id>>, Max(max_dec, 0))
    IN  <<enc_query, dec_input_of(dec_query), labels_of(dec_query)>>

\* one iteration of TextToTextPTuneDataset.convert_examples_to_features
PTune_feature(example, prompt_id, max_len, max_dec, tmpl) ==
    LET enc_query == enc_hard_cap(
                        get_ptune_query(example.text_a, example.text_b,
                                        prompt_id, max_len, tmpl),
                        max_len)
        dec_query == dec_query_of(text_to_ids(label2string(example.label)), max_dec)
    IN  <<enc_query, dec_input_of(dec_query), labels_of(dec_query)>>

\* variant of XNli_feature: the encoder sequence is capped as in the PTune dataset
XNli_feature_capped(example, prompt_id, max_len, max_dec, tmpl) ==
    LET enc_query == enc_hard_cap(
                        get_ptune_query(example.text_a, example.text_b,
                                        prompt_id, max_len, tmpl),
                        max_len)
        dec_query == dec_query_of(text_to_ids(label2string(example.label)), max_dec)
    IN  <<enc_query, dec_input_of(dec_query), labels_of(dec_query),
          split(example.guid, "-")[2]>>

\* one iteration of TextToTextXNliDataset.convert_examples_to_features
XNli_feature(example, prompt_id, max_len, max_dec, tmpl) ==
    LET enc_query == get_ptune_query(example.text_a, example.text_b,
                                     prompt_id, max_len, tmpl)
        dec_query == dec_query_of(text_to_ids(label2string(example.label)), max_dec)
    IN  <<enc_query, dec_input_of(dec_query), labels_of(dec_query),
          split(example.guid, "-")[2]>>

convert_examples_to_features(klass, exs, prompt_id, max_len, max_dec, tmpl) ==
    [i \in 1..Len(exs) |->
        IF klass = "TextToTextPTuneDataset"
        THEN PTune_feature(exs[i], prompt_id, max_len, max_dec, tmpl)
        ELSE XNli_feature(exs[i], prompt_id, max_len, max_dec, tmpl)]

\* logging.info(f"Writing example {ex_index} of {len(self.examples)}")
WritingExample == [level |-> "info", msg |-> "Writing example"]

\* what convert_examples_to_features of either class writes to the log for the
\* examples from position i (1-based) on
RECURSIVE convert_examples_to_features_log(_, _, _, _)
convert_examples_to_features_log(exs, max_len, tmpl, i) ==
    IF i > Len(exs) THEN <<>>
    ELSE (IF (i - 1) % 10000 = 0 THEN <<WritingExample>> ELSE <<>>)
            \o get_ptune_query_log(exs[i].text_a, exs[i].text_b, max_len, tmpl)
            \o convert_examples_to_features_log(exs, max_len, tmpl, i + 1)

\* logging.info(f'Processing {file_name}') in TaskDataset.__init__
ProcessingFile == [level |-> "info", msg |-> "Processing"]

\* TextToTextPTuneDataset.__len__ (inherited by TextToTextXNliDataset)
Dataset_len(exs) == Len(exs)

\* __getitem__ of the two dataset classes
PTune_getitem(feats, idx) ==
    [text_enc |-> feats[idx][1], text_dec |-> feats[idx][2], labels |-> feats[idx][3]]

XNli_getitem(feats, idx) ==
    [text_enc |-> feats[idx][1], text_dec |-> feats[idx][2], labels |-> feats[idx][3],
     lang |-> feats[idx][4]]

---------------------------------------------------------------------------
(* Batch Collator: collate_fn *)

\* variant of pad_to: the padding is put in front
pad_to_front(item, width) == Repeat(pad_id, width - Len(item)) \o item

\* item + [pad_id] * (width - len(item))
pad_to(item, width) == item \o Repeat(pad_id, width - Len(item))

\* variant of loss_mask_row: the mask is derived from the token values
loss_mask_by_value(item, width) ==
    [j \in 1..width |-> IF j <= Len(item) /\ item[j] # pad_id THEN 1 ELSE 0]

\* ([1] * len(item)) + ([0] * (max_label_length - len(item)))
loss_mask_row(item, width) == Repeat(1, Len(item)) \o Repeat(0, width - Len(item))

\* variant of make_attention_mask_3d: only the source positions are tested
make_attention_mask_3d_source_only(source_block, target_block, pad) ==
    [b \in 1..Len(source_block) |->
        [p \in 1..Len(source_block[b]) |->
            [q \in 1..Len(target_block[b]) |->
                IF source_block[b][p] # pad THEN 1 ELSE 0]]]

\* t5_dataset.make_attention_mask_3d(source_block, target_block, pad_id)
make_attention_mask_3d(source_block, target_block, pad) ==
    [b \in 1..Len(source_block) |->
        [p \in 1..Len(source_block[b]) |->
            [q \in 1..Len(target_block[b]) |->
                IF source_block[b][p] # pad /\ target_block[b][q] # pad
                THEN 1 ELSE 0]]]

\* t5_dataset.make_history_mask_3d(block)
make_history_mask_3d(block) ==
    [b \in 1..Len(block) |->
        [p \in 1..Len(block[b]) |->
            [q \in 1..Len(block[b]) |-> IF q <= p THEN 1 ELSE 0]]]

\* a product that takes the first factor from the first row of the batch
mask_product_first_row(m1, m2) ==
    [b \in 1..Len(m1) |->
        [p \in 1..Len(m1[b]) |->
            [q \in 1..Len(m1[b][p]) |->
                IF p <= Len(m1[1]) /\ q <= Len(m1[1][p])
                THEN m1[1][p][q] * m2[b][p][q] ELSE 0]]]

\* elementwise product of two masks of the same shape
mask_product(m1, m2) ==
    [b \in 1..Len(m1) |->
        [p \in 1..Len(m1[b]) |->
            [q \in 1..Len(m1[b][p]) |-> m1[b][p][q] * m2[b][p][q]]]]

\* TextToTextPTuneDataset.collate_fn: the Batch it returns, or, for an empty
\* batch, the ValueError that max() of an empty list raises at the first max line
collate_fn(batch) ==
    IF batch = <<>> THEN [type |-> "ValueError", names |-> {}] ELSE
    LET enc_query0 == [i \in 1..Len(batch) |-> batch[i].text_enc]
        dec_input0 == [i \in 1..Len(batch) |-> batch[i].text_dec]
        labels0    == [i \in 1..Len(batch) |-> batch[i].labels]
        max_dec_input_length == MaxLen(dec_input0)
        max_enc_query_length == MaxLen(enc_query0)
        max_label_length     == MaxLen(labels0)
        loss_mask == [i \in 1..Len(batch) |-> loss_mask_row(labels0[i], max_label_length)]
        enc_query == [i \in 1..Len(batch) |-> pad_to(enc_query0[i], max_enc_query_length)]
        dec_input == [i \in 1..Len(batch) |-> pad_to(dec_input0[i], max_dec_input_length)]
        labels    == [i \in 1..Len(batch) |-> pad_to(labels0[i], max_label_length)]
    IN  [text_enc     |-> enc_query,
         text_dec     |-> dec_input,
         labels       |-> labels,
         loss_mask    |-> loss_mask,
         enc_mask     |-> make_attention_mask_3d(enc_query, enc_query, pad_id),
         dec_mask     |-> mask_product(make_attention_mask_3d(dec_input, dec_input, pad_id),
                                       make_history_mask_3d(dec_input)),
         enc_dec_mask |-> make_attention_mask_3d(dec_input, enc_query, pad_id)]

\* TextToTextXNliDataset.collate_fn: the same batch plus the parallel "lang"
\* list, and the same ValueError for an empty batch
XNli_collate_fn(batch) ==
    IF batch = <<>> THEN [type |-> "ValueError", names |-> {}]
    ELSE [lang |-> [i \in 1..Len(batch) |-> batch[i].lang]] @@ collate_fn(batch)

---------------------------------------------------------------------------
(* State *)

VARIABLES
    pc,                      \* "new", "ready" (constructed), "error", "collated";
                             \* "query", "queried", "batch", "batched" for direct calls
    klass,                   \* the dataset class that was instantiated
    task_name,               \* constructor arguments ...
    data_type,
    lines,                   \* the rows _read_tsv returns for file_name
    templates,
    pseudo_token_id,
    max_seq_length,
    max_seq_length_decoder,
    examples,                \* self.examples
    features,                \* self.features
    batch,                   \* the list of items last handed to collate_fn
    collated,                \* what that collate_fn call returned
    query,                   \* the last direct get_ptune_query call and its result
    raised,                  \* the exception the constructor raised, NoError if none
    log,                     \* the records written through nemo.utils.logging
    qa,                      \* a GPTQAModel: mode, verbosity, data loaders, last call
    pred                     \* the last direct _get_predictions call and its result

vars == <<pc, klass, task_name, data_type, lines, templates, pseudo_token_id,
          max_seq_length, max_seq_length_decoder, examples, features,
          batch, collated, query, raised, log, qa, pred>>

\* the state of the P-Tune dataset and of the direct calls on it
dataset_vars == <<pc, klass, task_name, data_type, lines, templates, pseudo_token_id,
                  max_seq_length, max_seq_length_decoder, examples, features,
                  batch, collated, query, raised, log>>

ctor_args == <<klass, task_name, data_type, lines, templates, pseudo_token_id,
               max_seq_length, max_seq_length_decoder>>

---------------------------------------------------------------------------
(* Inputs *)

Classes == {"TextToTextPTuneDataset", "TextToTextXNliDataset"}

DataTypes == {<<"dev">>}

Col0Values == {<<"en">>}

\* sentence pairs found in the two sentence columns of a row
SentencePairs == {<< <<>>, <<>> >>, << <<"x">>, <<"y">> >>}

\* label cells: empty, one word, one word that tokenizes to pad_id, two words of
\* which the first tokenizes to pad_id
LabelTexts == {<<>>, <<"entailment">>, <<"<pad>">>, <<"<pad>", "neutral">>}

Filler == <<"f">>

HeaderRow == <<Filler>>

\* a row in the MNLI layout: sentences in columns 8 and 9, label last
MnliRow(col0, a, b, label) ==
    <<col0, Filler, Filler, Filler, Filler, Filler, Filler, Filler, a, b, Filler, label>>

\* a row in the XNLI layout: label in column 1, sentences in columns 6 and 7
XNliRow(col0, a, b, label) ==
    <<col0, label, Filler, Filler, Filler, Filler, a, b, Filler>>

FileRows(task) ==
    {IF task = "mnli" THEN MnliRow(c, sp[1], sp[2], l) ELSE XNliRow(c, sp[1], sp[2], l) :
        c \in Col0Values, sp \in SentencePairs, l \in LabelTexts}

\* templates: a list of integers, of which get_ptune_query places the first two
\* and sums all; pairs, and lists with a third entry
TemplateChoices ==
    ((0..MaxTemplate) \X (0..MaxTemplate))
        \cup {<<0, 0, MaxTemplate>>, <<MaxTemplate, MaxTemplate, MaxTemplate>>}

PseudoTokenIds == {vocab["[PROMPT]"], pad_id}

\* sentences passed directly to get_ptune_query
Sentences == SeqsUpTo({"x", "y"}, MaxTextLen)

NoBatchOut ==
    [text_enc |-> <<>>, text_dec |-> <<>>, labels |-> <<>>, loss_mask |-> <<>>,
     enc_mask |-> <<>>, dec_mask |-> <<>>, enc_dec_mask |-> <<>>]

NoQuery ==
    [text_a |-> <<>>, text_b |-> <<>>, prompt_token_id |-> 0, max_seq_len |-> 0,
     templates |-> <<0, 0>>, result |-> <<>>]

\* Python's None where a file name, a mode, a loader or an exception is expected
PyNone == "None"

\* no data loader: self._train_dl / _validation_dl / _test_dl is None
NoLoader == [file |-> PyNone, mode |-> PyNone]

\* no call has been made on the model yet
NoCall ==
    [op |-> PyNone, arg |-> PyNone, propagated |-> PyNone,
     before |-> [training |-> FALSE, verbosity |-> PyNone, train_dl |-> NoLoader,
                 validation_dl |-> NoLoader, test_dl |-> NoLoader]]

\* no GPTQAModel in use
NoQA ==
    [library |-> PyNone, training |-> FALSE, verbosity |-> PyNone,
     train_dl |-> NoLoader, validation_dl |-> NoLoader, test_dl |-> NoLoader,
     call |-> NoCall]

\* no _get_predictions call in use
NoPred ==
    [features |-> <<>>, examples |-> <<>>, unique_ids |-> <<>>,
     per_sample_perplexity |-> <<>>, generated_texts |-> <<>>,
     raised |-> PyNone, result |-> <<>>]

---------------------------------------------------------------------------
(* Dataset life cycle: construction, then batches are collated *)

\* a dataset about to be constructed, its class and task, templates, placeholder
\* id and length budgets drawn from the given sets
NewDataset(configs, tmpls, pseudo_ids, seq_lens, dec_lens) ==
    /\ pc = "new"
    /\ \E c \in configs : klass = c[1] /\ task_name = c[2]
    /\ data_type \in DataTypes
    /\ \E rows \in SeqsUpTo(FileRows(task_name), MaxRows) : lines = <<HeaderRow>> \o rows
    /\ templates \in tmpls
    /\ pseudo_token_id \in pseudo_ids
    /\ max_seq_length \in seq_lens
    /\ max_seq_length_decoder \in dec_lens
    /\ examples = <<>>
    /\ features = <<>>
    /\ batch = <<>>
    /\ collated = NoBatchOut
    /\ query = NoQuery
    /\ raised = NoError
    /\ log = <<>>
    /\ qa = NoQA
    /\ pred = NoPred

\* each dataset class with the task it is written for
OwnTask == {<<"TextToTextPTuneDataset", "mnli">>, <<"TextToTextXNliDataset", "xnli">>}

Init ==
    NewDataset(OwnTask, {<<0, 0>>, <<MaxTemplate, MaxTemplate>>}, PseudoTokenIds,
               {MaxSeqLen}, {MaxDecLen})

\* TextToTextPTuneDataset.__init__ (inherited by TextToTextXNliDataset):
\* TaskDataset.__init__ parses the examples, then the features are built
Dataset_init ==
    /\ pc = "new"
    /\ init_error(task_name, lines) = NoError
    /\ LET exs == get_examples(task_name, lines, data_type) IN
        /\ examples' = exs
        /\ features' = convert_examples_to_features(klass, exs, pseudo_token_id,
                            max_seq_length, max_seq_length_decoder, templates)
        /\ log' = log \o <<ProcessingFile>>
                      \o convert_examples_to_features_log(exs, max_seq_length, templates, 1)
    /\ pc' = "ready"
    /\ UNCHANGED <<ctor_args, batch, collated, query, raised, qa, pred>>

\* the constructor raises; self.examples is left as exs and self.features is
\* never assigned
Dataset_init_raises(exs) ==
    /\ pc = "new"
    /\ init_error(task_name, lines) # NoError
    /\ raised' = init_error(task_name, lines)
    /\ log' = log \o <<ProcessingFile>>
    /\ examples' = exs
    /\ pc' = "error"
    /\ UNCHANGED <<ctor_args, features, batch, collated, query, qa, pred>>

\* variant of Dataset_init_fails: the examples parsed before the failing row are kept
Dataset_init_fails_partial ==
    Dataset_init_raises(
        IF task_name \in processors
        THEN LET first_bad == CHOOSE k \in bad_rows(task_name, lines) :
                                \A j \in bad_rows(task_name, lines) : k <= j
             IN  get_examples(task_name, SubSeq(lines, 1, first_bad - 1), data_type)
        ELSE examples)

\* TaskDataset.__init__ raises ValueError (task name) or _create_examples raises
\* IndexError (short row): neither self.examples nor self.features is assigned
Dataset_init_fails == Dataset_init_raises(examples)

\* index lists a loader may draw from a dataset of n features: distinct positions
BatchIndices(n) ==
    {idxs \in UNION {[1..k -> 1..n] : k \in 1..MaxBatch} :
        \A i, j \in 1..Len(idxs) : i # j => idxs[i] # idxs[j]}

\* a batch of TextToTextPTuneDataset items is collated; a loader hands over at
\* least one item
Collate ==
    /\ pc \in {"ready", "collated"}
    /\ klass = "TextToTextPTuneDataset"
    /\ \E idxs \in BatchIndices(Len(features)) :
         LET items == [i \in 1..Len(idxs) |-> PTune_getitem(features, idxs[i])] IN
           /\ batch' = items
           /\ collated' = collate_fn(items)
    /\ pc' = "collated"
    /\ UNCHANGED <<ctor_args, examples, features, query, raised, log, qa, pred>>

\* a batch of TextToTextXNliDataset items is collated; a loader hands over at
\* least one item
XNli_Collate ==
    /\ pc \in {"ready", "collated"}
    /\ klass = "TextToTextXNliDataset"
    /\ \E idxs \in BatchIndices(Len(features)) :
         LET items == [i \in 1..Len(idxs) |-> XNli_getitem(features, idxs[i])] IN
           /\ batch' = items
           /\ collated' = XNli_collate_fn(items)
    /\ pc' = "collated"
    /\ UNCHANGED <<ctor_args, examples, features, query, raised, log, qa, pred>>

Next == Dataset_init \/ Collate \/ XNli_Collate

Spec == Init /\ [][Next]_vars

---------------------------------------------------------------------------
(* Dataset construction over every length budget *)

BuildInit ==
    NewDataset(OwnTask, TemplateChoices, {vocab["[PROMPT]"]}, 0..MaxSeqLen, 0..MaxDecLen)

BuildNext == Dataset_init

SpecBuild == BuildInit /\ [][BuildNext]_vars

---------------------------------------------------------------------------
(* Dataset construction over well-formed and malformed files and task names *)

\* a complete row in the layout of the task
ParseRow(task, col0) ==
    IF task = "mnli" THEN MnliRow(col0, <<"x">>, <<"y">>, <<"entailment">>)
                     ELSE XNliRow(col0, <<"x">>, <<"y">>, <<"entailment">>)

\* a complete row with other sentences and another label
ParseOtherRow(task) ==
    IF task = "mnli" THEN MnliRow(<<"en">>, <<"y">>, <<>>, <<"<pad>", "neutral">>)
                     ELSE XNliRow(<<"en">>, <<"y">>, <<>>, <<"<pad>", "neutral">>)

\* rows a file may hold: complete rows whose first cell is a language code, an
\* index cell or a language code with a '-' inside, and a row cut after any
\* number of cells
ParseRows(task) ==
    {ParseRow(task, c) : c \in {<<"en">>, <<"1">>, <<"2">>, <<"zh", "-", "CN">>}}
        \cup {ParseOtherRow(task)}
        \cup {SubSeq(ParseRow(task, <<"1">>), 1, n) :
                    n \in 0..(Len(ParseRow(task, <<"1">>)) - 1)}

\* the task names are the registered ones and one that is not; one of the split
\* names has a '-' inside
ParseInit ==
    /\ pc = "new"
    /\ klass \in Classes
    /\ task_name \in processors \cup {"sts-b"}
    /\ data_type \in {<<"dev">>, <<"dev", "-", "matched">>}
    /\ \E rows \in SeqsUpTo(ParseRows(task_name), MaxRows) : lines = <<HeaderRow>> \o rows
    /\ templates = <<0, 0>>
    /\ pseudo_token_id = vocab["[PROMPT]"]
    /\ max_seq_length = MaxSeqLen
    /\ max_seq_length_decoder = MaxDecLen
    /\ examples = <<>>
    /\ features = <<>>
    /\ batch = <<>>
    /\ collated = NoBatchOut
    /\ query = NoQuery
    /\ raised = NoError
    /\ log = <<>>
    /\ qa = NoQA
    /\ pred = NoPred

ParseNext == Dataset_init \/ Dataset_init_fails

SpecParse == ParseInit /\ [][ParseNext]_vars

---------------------------------------------------------------------------
(* Direct calls of collate_fn on items of any length *)

\* no item, or one or two items shaped like Features: token sequences of up to
\* MaxItemLen ids, pad_id among them, labels as long as the decoder input
CollateInit ==
    /\ pc = "batch"
    /\ klass = "TextToTextPTuneDataset"
    /\ task_name = "mnli"
    /\ data_type = <<"dev">>
    /\ lines = <<HeaderRow>>
    /\ templates = <<0, 0>>
    /\ pseudo_token_id = vocab["[PROMPT]"]
    /\ max_seq_length = 0
    /\ max_seq_length_decoder = 0
    /\ examples = <<>>
    /\ features = <<>>
    /\ LET item_seqs == SeqsUpTo({pad_id, vocab["x"]}, MaxItemLen)
           items == {[text_enc |-> e, text_dec |-> d, labels |-> d] :
                        e \in item_seqs, d \in item_seqs}
       IN  \/ batch = <<>>
           \/ \E a \in items, b \in items : batch = <<a>> \/ batch = <<a, b>>
    /\ collated = NoBatchOut
    /\ query = NoQuery
    /\ raised = NoError
    /\ log = <<>>
    /\ qa = NoQA
    /\ pred = NoPred

\* dataset.collate_fn(batch): the Batch is returned, or the ValueError propagates
\* to the caller and nothing is returned
CollateFn ==
    /\ pc = "batch"
    /\ IF batch = <<>>
       THEN /\ raised' = collate_fn(batch)
            /\ pc' = "error"
            /\ UNCHANGED collated
       ELSE /\ collated' = collate_fn(batch)
            /\ pc' = "batched"
            /\ UNCHANGED raised
    /\ UNCHANGED <<ctor_args, examples, features, batch, query, log, qa, pred>>

CollateNext == CollateFn

SpecCollate == CollateInit /\ [][CollateNext]_vars

---------------------------------------------------------------------------
(* Interleaved calls of collate_fn on one constructed dataset *)

\* the loader workers that call collate_fn on the same dataset
Callers == {"w1", "w2"}

\* the locals of a collate_fn call that has not started, and no result
NoLocals ==
    [max_dec_input_length |-> 0, max_enc_query_length |-> 0, max_label_length |-> 0,
     loss_mask |-> <<>>, enc_query |-> <<>>, dec_input |-> <<>>, labels |-> <<>>,
     overlapped |-> FALSE, result |-> NoBatchOut]

\* the items __getitem__ of the dataset's class returns for the positions idxs of
\* feats: each item holds the lists of the Feature themselves
ItemsAt(feats, idxs) ==
    IF klass = "TextToTextPTuneDataset"
    THEN [i \in 1..Len(idxs) |-> PTune_getitem(feats, idxs[i])]
    ELSE [i \in 1..Len(idxs) |-> XNli_getitem(feats, idxs[i])]

\* a constructed dataset of either class, its file holding rows of two kinds
\* (nothing but empty cells, and two sentences with a label of two words), no
\* collate_fn call started; per caller, pc is the place its call has
\* reached, batch the positions of its items and collated the locals and the
\* result of its call
InterleaveInit ==
    /\ \E c \in OwnTask : klass = c[1] /\ task_name = c[2]
    /\ data_type \in DataTypes
    /\ LET cells == {<< <<>>, <<>>, <<>> >>,
                     << <<"x">>, <<"y">>, <<"<pad>", "neutral">> >>}
           file_rows == {r \in FileRows(task_name) :
                            \E c \in cells :
                                r \in {MnliRow(r[1], c[1], c[2], c[3]),
                                       XNliRow(r[1], c[1], c[2], c[3])}}
       IN  \E rows \in SeqsUpTo(file_rows, MaxRows) :
              /\ rows # <<>>
              /\ lines = <<HeaderRow>> \o rows
    /\ templates = <<0, 0>>
    /\ pseudo_token_id = vocab["[PROMPT]"]
    /\ max_seq_length = MaxSeqLen
    /\ max_seq_length_decoder = MaxDecLen
    /\ examples = get_examples(task_name, lines, data_type)
    /\ features = convert_examples_to_features(klass, examples, pseudo_token_id,
                        max_seq_length, max_seq_length_decoder, templates)
    /\ log = <<ProcessingFile>>
                \o convert_examples_to_features_log(examples, max_seq_length, templates, 1)
    /\ pc = [c \in Callers |-> "idle"]
    /\ batch = [c \in Callers |-> <<>>]
    /\ collated = [c \in Callers |-> NoLocals]
    /\ query = NoQuery
    /\ raised = NoError
    /\ qa = NoQA
    /\ pred = NoPred

\* caller c enters collate_fn with the items at some positions: enc_query,
\* dec_input and labels become lists of the Feature lists of those items
CollateCall(c) ==
    /\ pc[c] \in {"idle", "returned"}
    /\ \E idxs \in BatchIndices(Len(features)) : batch' = [batch EXCEPT ![c] = idxs]
    /\ collated' = [collated EXCEPT ![c] = NoLocals]
    /\ pc' = [pc EXCEPT ![c] = "called"]
    /\ UNCHANGED <<ctor_args, examples, features, query, raised, log, qa, pred>>

\* the three max(...) lines, over the lists as they are now
CollateMeasure(c) ==
    /\ pc[c] = "called"
    /\ LET items == ItemsAt(features, batch[c]) IN
         collated' = [collated EXCEPT ![c] =
            [@ EXCEPT !.max_dec_input_length = MaxLen([i \in 1..Len(items) |-> items[i].text_dec]),
                      !.max_enc_query_length = MaxLen([i \in 1..Len(items) |-> items[i].text_enc]),
                      !.max_label_length     = MaxLen([i \in 1..Len(items) |-> items[i].labels])]]
    /\ pc' = [pc EXCEPT ![c] = "measured"]
    /\ UNCHANGED <<ctor_args, examples, features, batch, query, raised, log, qa, pred>>

\* what the four comprehensions of caller c build from the lists as they are now
\* and from the maxima it measured; overlapped tells whether another call stood
\* between its measuring and its padding at that moment
padded_locals(c) ==
    LET items == ItemsAt(features, batch[c])
        l     == collated[c]
    IN  [l EXCEPT
            !.loss_mask = [i \in 1..Len(items) |->
                              loss_mask_row(items[i].labels, l.max_label_length)],
            !.enc_query = [i \in 1..Len(items) |->
                              pad_to(items[i].text_enc, l.max_enc_query_length)],
            !.dec_input = [i \in 1..Len(items) |->
                              pad_to(items[i].text_dec, l.max_dec_input_length)],
            !.labels    = [i \in 1..Len(items) |->
                              pad_to(items[i].labels, l.max_label_length)],
            !.overlapped = \E d \in Callers \ {c} : pc[d] = "measured"]

\* variant of CollatePad: the padding is appended to the Feature lists themselves
CollatePad_inplace(c) ==
    /\ pc[c] = "measured"
    /\ collated' = [collated EXCEPT ![c] = padded_locals(c)]
    /\ features' = [j \in 1..Len(features) |->
                      IF \E i \in 1..Len(batch[c]) : batch[c][i] = j
                      THEN LET i == CHOOSE i \in 1..Len(batch[c]) : batch[c][i] = j
                               l == padded_locals(c)
                           IN  [features[j] EXCEPT ![1] = l.enc_query[i],
                                                   ![2] = l.dec_input[i],
                                                   ![3] = l.labels[i]]
                      ELSE features[j]]
    /\ pc' = [pc EXCEPT ![c] = "padded"]
    /\ UNCHANGED <<ctor_args, examples, batch, query, raised, log, qa, pred>>

\* the loss_mask line and the three padding lines: item + [pad_id] * (...) makes
\* a new list for every item
CollatePad(c) ==
    /\ pc[c] = "measured"
    /\ collated' = [collated EXCEPT ![c] = padded_locals(c)]
    /\ pc' = [pc EXCEPT ![c] = "padded"]
    /\ UNCHANGED <<ctor_args, examples, features, batch, query, raised, log, qa, pred>>

\* the tensors and masks are made from the padded lists and the batch is
\* returned, with the "lang" list of the items for TextToTextXNliDataset
CollateReturn(c) ==
    /\ pc[c] = "padded"
    /\ LET l   == collated[c]
           out == [text_enc     |-> l.enc_query,
                   text_dec     |-> l.dec_input,
                   labels       |-> l.labels,
                   loss_mask    |-> l.loss_mask,
                   enc_mask     |-> make_attention_mask_3d(l.enc_query, l.enc_query, pad_id),
                   dec_mask     |-> mask_product(
                                        make_attention_mask_3d(l.dec_input, l.dec_input, pad_id),
                                        make_history_mask_3d(l.dec_input)),
                   enc_dec_mask |-> make_attention_mask_3d(l.dec_input, l.enc_query, pad_id)]
           items == ItemsAt(features, batch[c])
       IN  collated' = [collated EXCEPT ![c] =
              [NoLocals EXCEPT
                  !.overlapped = l.overlapped,
                  !.result = IF klass = "TextToTextXNliDataset"
                             THEN [lang |-> [i \in 1..Len(items) |-> items[i].lang]] @@ out
                             ELSE out]]
    /\ pc' = [pc EXCEPT ![c] = "returned"]
    /\ UNCHANGED <<ctor_args, examples, features, batch, query, raised, log, qa, pred>>

InterleaveNext ==
    \E c \in Callers :
        CollateCall(c) \/ CollateMeasure(c) \/ CollatePad(c) \/ CollateReturn(c)

SpecInterleave == InterleaveInit /\ [][InterleaveNext]_vars

---------------------------------------------------------------------------
(* Direct calls of the Query Builder *)

QueryInit ==
    /\ pc = "query"
    /\ klass = "TextToTextPTuneDataset"
    /\ task_name = "mnli"
    /\ data_type = <<"dev">>
    /\ lines = <<HeaderRow>>
    /\ templates = <<0, 0>>
    /\ pseudo_token_id = vocab["[PROMPT]"]
    /\ max_seq_length = 0
    /\ max_seq_length_decoder = 0
    /\ examples = <<>>
    /\ features = <<>>
    /\ batch = <<>>
    /\ collated = NoBatchOut
    /\ raised = NoError
    /\ log = <<>>
    /\ qa = NoQA
    /\ pred = NoPred
    /\ \E a \in Sentences, b \in Sentences, p \in PseudoTokenIds,
          m \in 0..(MaxSeqLen + 2),
          t \in ((0..(MaxTemplate + 1)) \X (0..(MaxTemplate + 1)))
                    \cup ((0..MaxTemplate) \X (0..MaxTemplate) \X (0..MaxTemplate)) :
         query = [text_a |-> a, text_b |-> b, prompt_token_id |-> p, max_seq_len |-> m,
                  templates |-> t, result |-> <<>>]

\* processor.get_ptune_query(text_a, text_b, prompt_token_id, max_seq_len, templates, tokenizer)
GetPtuneQuery ==
    /\ pc = "query"
    /\ query' = [query EXCEPT !.result =
                    get_ptune_query(query.text_a, query.text_b, query.prompt_token_id,
                                    query.max_seq_len, query.templates)]
    /\ log' = log \o get_ptune_query_log(query.text_a, query.text_b,
                                          query.max_seq_len, query.templates)
    /\ pc' = "queried"
    /\ UNCHANGED <<ctor_args, examples, features, batch, collated, raised, qa, pred>>

QueryNext == GetPtuneQuery

SpecQuery == QueryInit /\ [][QueryNext]_vars

---------------------------------------------------------------------------
(* GPTQAModel: the data loader setters and inference *)

Libraries == {"huggingface", "megatron"}

\* verbosity levels nemo.utils.logging may be at when a call starts
Verbosities == {"INFO", "WARNING", "DEBUG"}

\* qa_processing.TRAINING_MODE / EVALUATION_MODE
TRAINING_MODE == "train"
EVALUATION_MODE == "eval"

\* the file of a data config: None, the empty string, a path
DataFiles == {PyNone, "", "data.json"}

\* Optional[DictConfig]: None, or a config with its file
DataConfigs ==
    {[is_none |-> TRUE, file |-> PyNone]} \cup {[is_none |-> FALSE, file |-> f] : f \in DataFiles}

\* `not cfg or not cfg.file` of setup_training_data and setup_validation_data
config_or_file_missing(cfg) == cfg.is_none \/ cfg.file = PyNone \/ cfg.file = ""

\* `not cfg or cfg.file is None` of setup_test_data
test_config_or_file_missing(cfg) == cfg.is_none \/ cfg.file = PyNone

\* _setup_dataloader_from_config: a loader over the dataset of cfg.file in mode
setup_dataloader_from_config(cfg, mode) == [file |-> cfg.file, mode |-> mode]

\* variant of setup_training_data: a missing config leaves the test loader alone
\* logging.info(...) of the missing branch of setup_training_data
TrainLoaderMissing ==
    [level |-> "info",
     msg |-> "Dataloader config or file_path for the train is missing, so no data loader for test is created!"]

\* logging.info(...) of the missing branch of setup_validation_data
ValidationLoaderMissing ==
    [level |-> "info",
     msg |-> "Dataloader config or file_path for the validation is missing, so no data loader for test is created!"]

\* logging.info(...) of the missing branch of setup_test_data
TestLoaderMissing ==
    [level |-> "info",
     msg |-> "Dataloader config or file_path for the test is missing, so no data loader for test is created!"]

\* what one setup_training_data call writes to the log
setup_training_data_log(cfg) ==
    IF config_or_file_missing(cfg) THEN <<TrainLoaderMissing>> ELSE <<>>

\* what one setup_validation_data call writes to the log
setup_validation_data_log(cfg) ==
    IF config_or_file_missing(cfg) THEN <<ValidationLoaderMissing>> ELSE <<>>

\* what one setup_test_data call writes to the log
setup_test_data_log(cfg) ==
    IF test_config_or_file_missing(cfg) THEN <<TestLoaderMissing>> ELSE <<>>

setup_training_data_keeps_test(q, cfg) ==
    IF config_or_file_missing(cfg)
    THEN q
    ELSE [q EXCEPT !.train_dl = setup_dataloader_from_config(cfg, TRAINING_MODE)]

\* GPTQAModel.setup_training_data
setup_training_data(q, cfg) ==
    IF config_or_file_missing(cfg)
    THEN [q EXCEPT !.test_dl = NoLoader]
    ELSE [q EXCEPT !.train_dl = setup_dataloader_from_config(cfg, TRAINING_MODE)]

\* GPTQAModel.setup_validation_data
setup_validation_data(q, cfg) ==
    IF config_or_file_missing(cfg)
    THEN [q EXCEPT !.test_dl = NoLoader]
    ELSE [q EXCEPT !.validation_dl = setup_dataloader_from_config(cfg, EVALUATION_MODE)]

\* GPTQAModel.setup_test_data
setup_test_data(q, cfg) ==
    IF test_config_or_file_missing(cfg)
    THEN [q EXCEPT !.test_dl = NoLoader]
    ELSE [q EXCEPT !.test_dl = setup_dataloader_from_config(cfg, EVALUATION_MODE)]

\* the statements of the try block of inference that may raise, in order
InferenceSteps ==
    <<"eval", "to", "setup_inference_data", "_inference", "_get_predictions",
      "_dump_predictions_to_file">>

\* position of a step in the try block
StepIndex(step) == CHOOSE k \in 1..Len(InferenceSteps) : InferenceSteps[k] = step

NoException == [type |-> PyNone, step |-> PyNone]

\* the exception a failing step raises
StepException(step) == [type |-> "Exception", step |-> step]

\* GPTQAModel.inference on a model q whose try block fails at fail_at (PyNone:
\* no step fails): the model afterwards and the exception that propagates
inference(q, fail_at) ==
    IF q.library = "megatron"
    THEN [model |-> q, propagated |-> [type |-> "ValueError", step |-> PyNone]]
    ELSE
    LET mode == q.training
        reached(step) == fail_at = PyNone \/ StepIndex(step) <= StepIndex(fail_at)
        done(step) == fail_at = PyNone \/ StepIndex(step) < StepIndex(fail_at)
        \* logging_level is assigned between self.to(device) and setup_inference_data
        logging_level_bound == done("to")
        logging_level == q.verbosity
        in_try == [q EXCEPT !.training = IF reached("eval") THEN FALSE ELSE @,
                            !.verbosity = IF logging_level_bound THEN "WARNING" ELSE @]
        \* finally: self.train(mode=mode); logging.set_verbosity(logging_level)
        restored == [in_try EXCEPT !.training = mode,
                                   !.verbosity = IF logging_level_bound
                                                 THEN logging_level ELSE @]
    IN  [model |-> restored,
         propagated |-> IF ~logging_level_bound
                        THEN [type |-> "UnboundLocalError", step |-> "finally"]
                        ELSE IF fail_at # PyNone THEN StepException(fail_at)
                        ELSE NoException]

\* the part of the model a call may change
Snapshot(q) ==
    [training |-> q.training, verbosity |-> q.verbosity, train_dl |-> q.train_dl,
     validation_dl |-> q.validation_dl, test_dl |-> q.test_dl]

\* the model after a call, with the record of that call
Called(q, after, op, arg, propagated) ==
    [after EXCEPT !.call = [op |-> op, arg |-> arg, propagated |-> propagated,
                            before |-> Snapshot(q)]]

\* what the record of a setup call keeps of its config
ConfigArg(cfg) == IF cfg.is_none THEN "no config" ELSE IF cfg.file = PyNone THEN "no file" ELSE cfg.file

---------------------------------------------------------------------------
(* GPTQAModel._get_predictions *)

\* the features of the example at position example_index (0-based), in order
RECURSIVE curr_features_of(_, _)
curr_features_of(feats, example_index) ==
    IF feats = <<>> THEN <<>>
    ELSE (IF Head(feats).example_index = example_index THEN <<Head(feats)>> ELSE <<>>)
            \o curr_features_of(Tail(feats), example_index)

\* unique_id_to_pos: the last position (0-based) at which unique_ids holds the id
HasPos(unique_ids, unique_id) == \E k \in 1..Len(unique_ids) : unique_ids[k] = unique_id

unique_id_to_pos(unique_ids, unique_id) ==
    (CHOOSE k \in 1..Len(unique_ids) :
        /\ unique_ids[k] = unique_id
        /\ \A h \in (k + 1)..Len(unique_ids) : unique_ids[h] # unique_id) - 1

\* prelim_predictions of one example, before sorting
prelim_predictions_of(curr, unique_ids, per_sample_perplexity, generated_texts) ==
    [j \in 1..Len(curr) |->
        LET pos == unique_id_to_pos(unique_ids, curr[j].unique_id) IN
        [feature_index |-> j - 1,
         perplexity |-> per_sample_perplexity[pos + 1],
         generated_text |-> generated_texts[pos + 1]]]

\* sorted(prelim, key=perplexity)[0]: sorted is stable, so the first of the
\* entries of least perplexity
first_sorted(prelim) ==
    LET least == CHOOSE j \in 1..Len(prelim) :
                    /\ \A h \in 1..Len(prelim) : prelim[j].perplexity <= prelim[h].perplexity
                    /\ \A h \in 1..(j - 1) : prelim[h].perplexity # prelim[j].perplexity
    IN  prelim[least]

\* the exception the loop body raises for the example at example_index, if any:
\* KeyError from unique_id_to_pos[...], IndexError from prelim_predictions[0]
example_error(feats, unique_ids, example_index) ==
    LET curr == curr_features_of(feats, example_index) IN
    IF \E j \in 1..Len(curr) : ~HasPos(unique_ids, curr[j].unique_id) THEN "KeyError"
    ELSE IF curr = <<>> THEN "IndexError"
    ELSE PyNone

\* a dict filled by d[key] = value for the pairs <<key, value>> in order, as the
\* list of its items: a key stays where it was first inserted and holds the
\* value assigned last
dict_items(pairs) ==
    LET first(i) == \A j \in 1..(i - 1) : pairs[j][1] # pairs[i][1]
        last(k)  == CHOOSE j \in 1..Len(pairs) :
                        /\ pairs[j][1] = k
                        /\ \A h \in (j + 1)..Len(pairs) : pairs[h][1] # k
        items[i \in 0..Len(pairs)] ==
            IF i = 0 THEN <<>>
            ELSE IF first(i) THEN Append(items[i - 1], <<pairs[i][1], pairs[last(pairs[i][1])][2]>>)
            ELSE items[i - 1]
    IN  items[Len(pairs)]

\* GPTQAModel._get_predictions: the exception raised, and the entries of
\* all_predictions in insertion order
get_predictions(feats, exs, unique_ids, per_sample_perplexity, generated_texts) ==
    LET processed == Min(Len(exs), Len(unique_ids))
        failing   == {e \in 0..(processed - 1) : example_error(feats, unique_ids, e) # PyNone}
    IN  IF failing # {}
        THEN [raised |-> example_error(feats, unique_ids,
                            CHOOSE e \in failing : \A d \in failing : e <= d),
              result |-> <<>>]
        ELSE LET items == dict_items([k \in 1..processed |->
                            <<exs[k].qas_id,
                              first_sorted(prelim_predictions_of(
                                    curr_features_of(feats, k - 1), unique_ids,
                                    per_sample_perplexity, generated_texts))>>])
             IN  [raised |-> PyNone,
                  result |-> [k \in 1..Len(items) |->
                                [qas_id |-> items[k][1], prediction |-> items[k][2]]]]

\* the text generated for the sample at position k (1-based) of the batches,
\* as a list of words
GenText(k) ==
    LET texts == << <<"the", "x">>, <<>>, <<"y">>, <<"x", "y">> >>
    IN  texts[((k - 1) % Len(texts)) + 1]

\* example.answers of the k-th example of a data file: one answer, an answer
\* that normalises to the empty text, or two answers
GoldAnswers(k) ==
    LET answers == << <<[text |-> <<"x">>]>>,
                      <<[text |-> <<"the">>]>>,
                      <<[text |-> <<"y">>], [text |-> <<"x", "y">>]>> >>
    IN  answers[((k - 1) % Len(answers)) + 1]

\* the examples of a data file, with distinct question ids
PredExamples(n) == [k \in 1..n |-> [qas_id |-> k, answers |-> GoldAnswers(k)]]

\* feature lists over n examples; the unique_id of a feature is its position
PredFeatures(n) ==
    UNION {{[j \in 1..m |-> [example_index |-> ei[j], unique_id |-> j]] :
                ei \in [1..m -> 0..(n - 1)]} : m \in 0..MaxFeatures}

\* the unique ids the batches returned: ids of features, each once, in any order
PredUniqueIds(m) ==
    {u \in UNION {[1..k -> 1..m] : k \in 0..m} :
        \A a, b \in 1..Len(u) : a # b => u[a] # u[b]}

---------------------------------------------------------------------------
(* Exact fractions, for the scores Python computes in floating point *)

RECURSIVE GCD(_, _)
GCD(a, b) == IF b = 0 THEN a ELSE GCD(b, a % b)

\* the fraction n / d in lowest terms, d > 0
Rat(n, d) == LET g == GCD(n, d) IN [num |-> n \div g, den |-> d \div g]

\* max(...) of a non-empty list of fractions
RatMax(rs) ==
    rs[CHOOSE i \in 1..Len(rs) :
          \A j \in 1..Len(rs) : rs[j].num * rs[i].den <= rs[i].num * rs[j].den]

\* sum(...) of a list of fractions
RECURSIVE RatSum(_)
RatSum(rs) ==
    IF rs = <<>> THEN Rat(0, 1)
    ELSE LET a == Head(rs)
             b == RatSum(Tail(rs))
         IN  Rat(a.num * b.den + b.num * a.den, a.den * b.den)

---------------------------------------------------------------------------
(* QAMetrics collaborator, on texts that are lists of lower-case words *)

Articles == {"a", "an", "the"}

\* QAMetrics.normalize_answer: the articles are removed
normalize_answer(text) == SelectSeq(text, LAMBDA w : w \notin Articles)

\* QAMetrics.get_normalized_tokens
get_normalized_tokens(text) == normalize_answer(text)

\* QAMetrics.get_exact_match
get_exact_match(prediction, ground_truth) ==
    IF normalize_answer(prediction) = normalize_answer(ground_truth) THEN Rat(1, 1) ELSE Rat(0, 1)

\* QAMetrics.get_f1: token overlap of the normalised texts
get_f1(prediction, ground_truth) ==
    LET prediction_tokens   == get_normalized_tokens(prediction)
        ground_truth_tokens == get_normalized_tokens(ground_truth)
        \* occurrences of word w in a list of words
        Count(words, w) == Cardinality({i \in 1..Len(words) : words[i] = w})
        \* sum of the Counter intersection: the occurrences of a word in the
        \* prediction that the ground truth has as well
        num_same == Cardinality({i \in 1..Len(prediction_tokens) :
                        Count(SubSeq(prediction_tokens, 1, i), prediction_tokens[i])
                            <= Count(ground_truth_tokens, prediction_tokens[i])})
    IN  IF Len(ground_truth_tokens) = 0 \/ Len(prediction_tokens) = 0
        THEN (IF ground_truth_tokens = prediction_tokens THEN Rat(1, 1) ELSE Rat(0, 1))
        ELSE IF num_same = 0 THEN Rat(0, 1)
        ELSE Rat(2 * num_same, Len(prediction_tokens) + Len(ground_truth_tokens))

---------------------------------------------------------------------------
(* GPTQAModel.evaluate and the epoch-end hooks *)

\* logging.warning(f"Missing prediction for {qas_id}")
MissingPrediction(qas_id) ==
    [level |-> "warning", msg |-> "Missing prediction for", qas_id |-> qas_id]

\* preds[qas_id].generated_text
generated_text_of(preds, qas_id) ==
    preds[CHOOSE k \in 1..Len(preds) : preds[k].qas_id = qas_id].prediction.generated_text

\* the gold answers of an example: the texts that do not normalise to the empty
\* text, or the empty text alone
gold_answers(example) ==
    LET kept == SelectSeq(example.answers, LAMBDA a : normalize_answer(a.text) # <<>>) IN
    IF kept = <<>> THEN << <<>> >> ELSE [i \in 1..Len(kept) |-> kept[i].text]

\* the examples that have a prediction, in order
scored_examples(exs, preds) ==
    SelectSeq(exs, LAMBDA e : \E k \in 1..Len(preds) : preds[k].qas_id = e.qas_id)

\* what _get_raw_scores writes to the log
get_raw_scores_log(exs, preds) ==
    LET missing == SelectSeq(exs, LAMBDA e :
                                \A k \in 1..Len(preds) : preds[k].qas_id # e.qas_id) IN
    [i \in 1..Len(missing) |-> MissingPrediction(missing[i].qas_id)]

\* GPTQAModel._get_raw_scores: the values of exact_scores and f1_scores
get_raw_scores(exs, preds) ==
    LET scored == scored_examples(exs, preds)
        score(e, metric(_, _)) ==
            LET gold == gold_answers(e) IN
            RatMax([i \in 1..Len(gold) |-> metric(generated_text_of(preds, e.qas_id), gold[i])])
        \* exact_scores and f1_scores are dicts keyed by qas_id
        values(metric(_, _)) ==
            LET items == dict_items([i \in 1..Len(scored) |->
                                        <<scored[i].qas_id, score(scored[i], metric)>>])
            IN  [i \in 1..Len(items) |-> items[i][2]]
    IN  [exact |-> values(get_exact_match), f1 |-> values(get_f1)]

\* 100.0 * sum(scores) / total
percentage(scores, total) ==
    LET sum == RatSum(scores) IN Rat(100 * sum.num, sum.den * total)

\* GPTQAModel._evaluate_predictions: the exception raised and the result
evaluate_predictions(exs, preds) ==
    LET raw   == get_raw_scores(exs, preds)
        total == Len(raw.exact)
    IN  IF total = 0
        THEN [raised |-> "ZeroDivisionError", result |-> <<>>]
        ELSE [raised |-> PyNone,
              result |-> [exact |-> percentage(raw.exact, total),
                          f1 |-> percentage(raw.f1, total),
                          total |-> total]]

\* GPTQAModel.evaluate: the exception raised, the records written to the log and
\* the pair (exact, f1) returned
evaluate(feats, exs, unique_ids, per_sample_perplexity, generated_texts) ==
    LET all_predictions == get_predictions(feats, exs, unique_ids, per_sample_perplexity,
                                           generated_texts)
    IN  IF all_predictions.raised # PyNone
        THEN [raised |-> all_predictions.raised, log |-> <<>>, result |-> <<>>]
        ELSE LET evaluation_results == evaluate_predictions(exs, all_predictions.result) IN
             [raised |-> evaluation_results.raised,
              log    |-> get_raw_scores_log(exs, all_predictions.result),
              result |-> IF evaluation_results.raised # PyNone THEN <<>>
                         ELSE <<evaluation_results.result.exact, evaluation_results.result.f1>>]

\* GPTQAModel._convert_dict_outputs_to_lists for one key of the batch outputs
RECURSIVE convert_dict_outputs_to_lists(_, _)
convert_dict_outputs_to_lists(outputs, key) ==
    IF outputs = <<>> THEN <<>>
    ELSE Head(outputs)[key] \o convert_dict_outputs_to_lists(Tail(outputs), key)

\* logging.info(f"{prefix} exact match {exact_match}")
ExactMatchInfo(prefix, exact_match) ==
    [level |-> "info", msg |-> "exact match", prefix |-> prefix, value |-> exact_match]

\* logging.info(f"{prefix} f1 {f1}")
F1Info(prefix, f1) ==
    [level |-> "info", msg |-> "f1", prefix |-> prefix, value |-> f1]

\* the prefix of the metrics: self.trainer.testing
epoch_prefix(testing) == IF testing THEN "test" ELSE "val"

\* self.evaluate(eval_dataset.features, eval_dataset.examples, unique_ids,
\* per_sample_perplexity, generated_answers) of validation_epoch_end, for the
\* outputs of the steps and the dataset of the evaluated loader
epoch_evaluate(outputs, dataset) ==
    evaluate(dataset.features, dataset.examples,
             convert_dict_outputs_to_lists(outputs, "unique_ids"),
             convert_dict_outputs_to_lists(outputs, "per_sample_perplexity"),
             convert_dict_outputs_to_lists(outputs, "generated_answers"))

\* GPTQAModel.validation_epoch_end on a model q whose trainer is testing or not,
\* for the outputs of the steps and the outcome ev of epoch_evaluate on the
\* dataset the evaluated loader holds: the exception that propagates and the
\* records written to the log
validation_epoch_end(q, testing, outputs, ev) ==
    LET prefix == epoch_prefix(testing)
        loader == IF testing THEN q.test_dl ELSE q.validation_dl
    IN  IF outputs = <<>>
        THEN [propagated |-> [type |-> "RuntimeError", step |-> "torch.stack"], log |-> <<>>]
        ELSE IF loader = NoLoader
        THEN [propagated |-> [type |-> "AttributeError", step |-> "eval_dataset"], log |-> <<>>]
        ELSE IF ev.raised # PyNone
        THEN [propagated |-> [type |-> ev.raised, step |-> "evaluate"], log |-> ev.log]
        ELSE [propagated |-> NoException,
              log |-> ev.log \o <<ExactMatchInfo(prefix, ev.result[1]),
                                  F1Info(prefix, ev.result[2])>>]

\* GPTQAModel.test_epoch_end
test_epoch_end(q, testing, outputs, ev) == validation_epoch_end(q, testing, outputs, ev)

\* the output of validation_step for the samples with the given unique ids
StepOutput(ids) ==
    [unique_ids |-> ids,
     per_sample_perplexity |-> [k \in 1..Len(ids) |-> 1],
     generated_answers |-> [k \in 1..Len(ids) |-> GenText(ids[k])],
     loss |-> 1]

\* datasets of an evaluated loader: every example has one feature, or all but
\* the first
EpochDatasets ==
    LET OneFeatureEach ==
            [j \in 1..MaxExamples |-> [example_index |-> j - 1, unique_id |-> j]]
    IN  {[features |-> f, examples |-> PredExamples(MaxExamples)] :
            f \in {OneFeatureEach, Tail(OneFeatureEach)}}

\* outputs of the steps of an epoch: no step, one step for all samples, or one
\* step for each sample; the steps saw the first unique ids, or the last one only
EpochOutputs ==
    LET EpochIds == {[k \in 1..n |-> k] : n \in 0..MaxExamples}
                        \cup {<<MaxExamples>>}
    IN  {<<>>} \cup {<<StepOutput(ids)>> : ids \in EpochIds}
               \cup {[k \in 1..Len(ids) |-> StepOutput(<<ids[k]>>)] : ids \in EpochIds}

---------------------------------------------------------------------------
(* GPTQAModel: calls of the setters, of inference and of the epoch-end hooks *)

QAInit ==
    /\ pc = "qa"
    /\ klass = "TextToTextPTuneDataset"
    /\ task_name = "mnli"
    /\ data_type = <<"dev">>
    /\ lines = <<HeaderRow>>
    /\ templates = <<0, 0>>
    /\ pseudo_token_id = vocab["[PROMPT]"]
    /\ max_seq_length = 0
    /\ max_seq_length_decoder = 0
    /\ examples = <<>>
    /\ features = <<>>
    /\ batch = <<>>
    /\ collated = NoBatchOut
    /\ query = NoQuery
    /\ raised = NoError
    /\ log = <<>>
    /\ \E l \in Libraries, t \in BOOLEAN, v \in Verbosities :
          qa = [NoQA EXCEPT !.library = l, !.training = t, !.verbosity = v]
    /\ pred = NoPred

SetupTrainingData ==
    /\ pc = "qa"
    /\ \E cfg \in DataConfigs :
          /\ Len(log) + Len(setup_training_data_log(cfg)) <= MaxLogRecords
          /\ qa' = Called(qa, setup_training_data(qa, cfg), "setup_training_data",
                          ConfigArg(cfg), NoException)
          /\ log' = log \o setup_training_data_log(cfg)
    /\ UNCHANGED <<pc, ctor_args, examples, features, batch, collated, query, raised, pred>>

SetupValidationData ==
    /\ pc = "qa"
    /\ \E cfg \in DataConfigs :
          /\ Len(log) + Len(setup_validation_data_log(cfg)) <= MaxLogRecords
          /\ qa' = Called(qa, setup_validation_data(qa, cfg), "setup_validation_data",
                          ConfigArg(cfg), NoException)
          /\ log' = log \o setup_validation_data_log(cfg)
    /\ UNCHANGED <<pc, ctor_args, examples, features, batch, collated, query, raised, pred>>

SetupTestData ==
    /\ pc = "qa"
    /\ \E cfg \in DataConfigs :
          /\ Len(log) + Len(setup_test_data_log(cfg)) <= MaxLogRecords
          /\ qa' = Called(qa, setup_test_data(qa, cfg), "setup_test_data",
                          ConfigArg(cfg), NoException)
          /\ log' = log \o setup_test_data_log(cfg)
    /\ UNCHANGED <<pc, ctor_args, examples, features, batch, collated, query, raised, pred>>

\* model.inference(file, ...): some step of the try block may raise
Inference ==
    /\ pc = "qa"
    /\ \E fail_at \in {PyNone} \cup {InferenceSteps[k] : k \in 1..Len(InferenceSteps)} :
          LET out == inference(qa, fail_at) IN
          qa' = Called(qa, out.model, "inference", fail_at, out.propagated)
    /\ UNCHANGED <<dataset_vars, pred>>

\* epoch_evaluate on every input of the epoch-end hooks
EpochEvaluation ==
    [outputs \in EpochOutputs |-> [dataset \in EpochDatasets |-> epoch_evaluate(outputs, dataset)]]

\* the validation loop ends: self.validation_epoch_end(outputs); taken on an
\* empty log, and on any log that has room for the records of the call
ValidationEpochEnd ==
    /\ pc = "qa"
    /\ \E testing \in BOOLEAN, outputs \in EpochOutputs, dataset \in EpochDatasets :
          LET out == validation_epoch_end(qa, testing, outputs,
                                          EpochEvaluation[outputs][dataset]) IN
          /\ log = <<>> \/ Len(log) + Len(out.log) <= MaxLogRecords
          /\ qa' = Called(qa, qa, "validation_epoch_end", epoch_prefix(testing),
                          out.propagated)
          /\ log' = log \o out.log
    /\ UNCHANGED <<pc, ctor_args, examples, features, batch, collated, query, raised, pred>>

\* the test loop ends: self.test_epoch_end(outputs)
TestEpochEnd ==
    /\ pc = "qa"
    /\ \E testing \in BOOLEAN, outputs \in EpochOutputs, dataset \in EpochDatasets :
          LET out == test_epoch_end(qa, testing, outputs,
                                    EpochEvaluation[outputs][dataset]) IN
          /\ log = <<>> \/ Len(log) + Len(out.log) <= MaxLogRecords
          /\ qa' = Called(qa, qa, "test_epoch_end", epoch_prefix(testing), out.propagated)
          /\ log' = log \o out.log
    /\ UNCHANGED <<pc, ctor_args, examples, features, batch, collated, query, raised, pred>>

QANext ==
    \/ SetupTrainingData
    \/ SetupValidationData
    \/ SetupTestData
    \/ Inference
    \/ ValidationEpochEnd
    \/ TestEpochEnd

SpecQA == QAInit /\ [][QANext]_vars

---------------------------------------------------------------------------
(* Direct calls of _get_predictions and of evaluate *)

\* the examples have distinct question ids or all share one; every sample has
\* one of two perplexities
PredictInit ==
    /\ pc = "predict"
    /\ klass = "TextToTextPTuneDataset"
    /\ task_name = "mnli"
    /\ data_type = <<"dev">>
    /\ lines = <<HeaderRow>>
    /\ templates = <<0, 0>>
    /\ pseudo_token_id = vocab["[PROMPT]"]
    /\ max_seq_length = 0
    /\ max_seq_length_decoder = 0
    /\ examples = <<>>
    /\ features = <<>>
    /\ batch = <<>>
    /\ collated = NoBatchOut
    /\ query = NoQuery
    /\ raised = NoError
    /\ log = <<>>
    /\ qa = NoQA
    /\ \E n \in 1..MaxExamples :
          \E f \in PredFeatures(n) :
            \E u \in PredUniqueIds(Len(f)) :
              \E p \in [1..Len(u) -> {1, 2}],
                 ex \in {PredExamples(n),
                         [k \in 1..n |-> [PredExamples(n)[k] EXCEPT
                                              !.qas_id = PredExamples(n)[1].qas_id]]} :
                pred = [features |-> f, examples |-> ex, unique_ids |-> u,
                        per_sample_perplexity |-> p,
                        generated_texts |-> [k \in 1..Len(u) |-> GenText(k)],
                        raised |-> PyNone, result |-> <<>>]

\* self._get_predictions(features, examples, unique_ids, per_sample_perplexity,
\* generated_texts)
GetPredictions ==
    /\ pc = "predict"
    /\ LET out == get_predictions(pred.features, pred.examples, pred.unique_ids,
                                  pred.per_sample_perplexity, pred.generated_texts)
       IN  pred' = [pred EXCEPT !.raised = out.raised, !.result = out.result]
    /\ pc' = "predicted"
    /\ UNCHANGED <<ctor_args, examples, features, batch, collated, query, raised, log, qa>>

\* self.evaluate(features, examples, unique_ids, per_sample_perplexity,
\* generated_texts)
Evaluate ==
    /\ pc = "predict"
    /\ LET out == evaluate(pred.features, pred.examples, pred.unique_ids,
                           pred.per_sample_perplexity, pred.generated_texts)
       IN  /\ pred' = [pred EXCEPT !.raised = out.raised, !.result = out.result]
           /\ log' = log \o out.log
    /\ pc' = "evaluated"
    /\ UNCHANGED <<ctor_args, examples, features, batch, collated, query, raised, qa>>

PredictNext == GetPredictions \/ Evaluate

SpecPredict == PredictInit /\ [][PredictNext]_vars

---------------------------------------------------------------------------
(* Properties of the Query Builder, checked under SpecQuery *)

\* the tokenization of the prompt of the recorded call
QueryTokenized == text_to_ids(full_sentence(query.text_a, query.text_b))

QueryLeft == query.templates[1]

QueryRight == query.templates[2]

\* the amount by which tokenization plus template exceed max_len
QueryOverflow ==
    Max(0, Len(QueryTokenized) + QueryLeft + QueryRight - query.max_seq_len)

\* s without its first k elements
DropFirst(s, k) == [i \in 1..Max(0, Len(s) - k) |-> s[i + k]]

\* C2 as stated: the sequence returned by get_ptune_query is never longer than
\* max_len
C2_LengthWithinMaxLen ==
    pc = "queried" => Len(query.result) <= query.max_seq_len

\* C2 amended: the returned sequence is never longer than the larger of max_len
\* and left_len + right_len; in particular it is within max_len whenever the two
\* placeholder runs alone fit into max_len
C2_LengthWithinMaxLenOrTemplate ==
    pc = "queried" =>
        /\ Len(query.result) <= Max(query.max_seq_len, QueryLeft + QueryRight)
        /\ (QueryLeft + QueryRight <= query.max_seq_len
                => Len(query.result) <= query.max_seq_len)

\* a call that had to truncate and whose placeholders fit: the result fills max_len
C2_Witness ==
    /\ pc = "queried"
    /\ QueryOverflow > 0
    /\ QueryLeft + QueryRight <= query.max_seq_len
    /\ Len(query.result) = query.max_seq_len

\* C3: the result begins with left_len copies of the placeholder id and ends with
\* right_len copies of it, whatever was truncated
C3_PlaceholdersIntact ==
    pc = "queried" =>
        /\ Len(query.result) >= QueryLeft + QueryRight
        /\ \A i \in 1..QueryLeft : query.result[i] = query.prompt_token_id
        /\ \A i \in (Len(query.result) - QueryRight + 1)..Len(query.result) :
              query.result[i] = query.prompt_token_id

\* a truncating call with placeholders on both sides
C3_Witness ==
    /\ pc = "queried"
    /\ QueryOverflow > 0
    /\ QueryLeft > 0
    /\ QueryRight > 0
    /\ Len(query.result) = QueryLeft + QueryRight + Len(QueryTokenized) - QueryOverflow

\* C4: between the placeholder runs stands the tokenization without its first k
\* tokens, k the overflow; with k = 0 the tokenization is whole
C4_LeftTruncation ==
    pc = "queried" =>
        LET middle == SubSeq(query.result, QueryLeft + 1, Len(query.result) - QueryRight)
        IN  /\ middle = DropFirst(QueryTokenized, QueryOverflow)
            /\ (QueryOverflow = 0 => middle = QueryTokenized)

---------------------------------------------------------------------------
(* Properties of the Features, checked under SpecBuild *)

\* the dataset has been constructed and holds at least one Feature
Built == pc = "ready" /\ Len(features) > 0

\* token ids of the label text of the i-th example
ContentIds(i) == text_to_ids(label2string(examples[i].label))

\* what the Query Builder returns for the i-th example under the dataset's settings
BuiltQuery(i) ==
    get_ptune_query(examples[i].text_a, examples[i].text_b, pseudo_token_id,
                    max_seq_length, templates)

\* the first n elements of s
FirstN(s, n) == [j \in 1..Min(Max(n, 0), Len(s)) |-> s[j]]

\* C1: in every Feature of either dataset class decoder_input_ids and label_ids
\* have the same length
C1_DecoderLabelSameLength ==
    pc = "ready" =>
        \A i \in 1..Len(features) : Len(features[i][2]) = Len(features[i][3])

\* a Feature whose label content was truncated, decoder input and labels non-empty
C1_Witness ==
    /\ Built
    /\ \E i \in 1..Len(features) :
          /\ Len(features[i][2]) < Len(ContentIds(i)) + 1
          /\ Len(features[i][2]) >= 1
          /\ Len(features[i][3]) = Len(features[i][2])

\* C5: every Feature's decoder_input_ids starts with BOS and its label_ids ends
\* with EOS
C5_MarkersKept ==
    pc = "ready" =>
        \A i \in 1..Len(features) :
            /\ Len(features[i][2]) >= 1
            /\ features[i][2][1] = bos_id
            /\ Len(features[i][3]) >= 1
            /\ features[i][3][Len(features[i][3])] = eos_id

\* a Feature built with a decoder budget that cannot even hold the two markers
C5_Witness ==
    /\ Built
    /\ max_seq_length_decoder < 2
    /\ \E i \in 1..Len(features) :
          /\ Len(ContentIds(i)) > 0
          /\ features[i][2][1] = bos_id
          /\ features[i][3][Len(features[i][3])] = eos_id

\* C6: decoder_input_ids and label_ids are the shifted pair of one decoder query
\* [BOS] + kept content + [EOS], the kept content being a prefix of the label's
\* token ids
C6_ShiftedPair ==
    pc = "ready" =>
        \A i \in 1..Len(features) :
            LET dec == features[i][2]
                lab == features[i][3]
                kept == FirstN(ContentIds(i), Len(dec) - 1)
            IN  /\ Len(lab) >= 1
                /\ Len(lab) = Len(dec)
                /\ Len(kept) = Len(dec) - 1
                /\ dec \o <<lab[Len(lab)]>> = <<bos_id>> \o kept \o <<eos_id>>
                /\ \A j \in 1..(Len(lab) - 1) : lab[j] = dec[j + 1]

\* a Feature that kept at least one content token between the markers
C6_Witness ==
    /\ Built
    /\ \E i \in 1..Len(features) :
          /\ Len(features[i][3]) >= 2
          /\ features[i][3][1] = features[i][2][2]
          /\ features[i][3][1] = ContentIds(i)[1]

\* C7: in the PTune dataset every encoder sequence is within max_seq_length; it is
\* the first max_seq_length tokens of the Query Builder output when that is
\* longer, and the output itself otherwise
C7_EncoderHardCap ==
    (pc = "ready" /\ klass = "TextToTextPTuneDataset") =>
        \A i \in 1..Len(features) :
            /\ Len(features[i][1]) <= max_seq_length
            /\ features[i][1] = IF Len(BuiltQuery(i)) > max_seq_length
                                THEN FirstN(BuiltQuery(i), max_seq_length)
                                ELSE BuiltQuery(i)

\* a PTune Feature whose Query Builder output was longer than max_seq_length
C7_Witness ==
    /\ Built
    /\ klass = "TextToTextPTuneDataset"
    /\ max_seq_length > 0
    /\ \E i \in 1..Len(features) :
          /\ Len(BuiltQuery(i)) > max_seq_length
          /\ Len(features[i][1]) = max_seq_length

\* C8: in the XNLI dataset every encoder sequence is the Query Builder output
\* itself, and it differs from what the PTune dataset builds from the same inputs
\* exactly when that output is longer than max_seq_length
C8_XNliNoHardCap ==
    (pc = "ready" /\ klass = "TextToTextXNliDataset") =>
        \A i \in 1..Len(features) :
            LET ptune == PTune_feature(examples[i], pseudo_token_id, max_seq_length,
                                       max_seq_length_decoder, templates)
            IN  /\ features[i][1] = BuiltQuery(i)
                /\ (features[i][1] # ptune[1]) <=> (Len(BuiltQuery(i)) > max_seq_length)

\* an XNLI Feature whose encoder sequence is longer than max_seq_length
C8_Witness ==
    /\ Built
    /\ klass = "TextToTextXNliDataset"
    /\ \E i \in 1..Len(features) : Len(features[i][1]) > max_seq_length

---------------------------------------------------------------------------
(* Properties of the Batch Collator, checked under Spec *)

\* the largest element of a non-empty set of numbers
Largest(S) == CHOOSE m \in S : \A n \in S : n <= m

\* the three original sequences of batch row i, and the widest of each in the batch
OrigEnc(i) == batch[i].text_enc

OrigDec(i) == batch[i].text_dec

OrigLabels(i) == batch[i].labels

EncWidth == Largest({Len(OrigEnc(i)) : i \in 1..Len(batch)})

DecWidth == Largest({Len(OrigDec(i)) : i \in 1..Len(batch)})

LabelWidth == Largest({Len(OrigLabels(i)) : i \in 1..Len(batch)})

\* row is orig followed by nothing but pad_id, up to width
PaddedTo(row, orig, width) ==
    /\ Len(row) = width
    /\ Len(orig) <= width
    /\ \A j \in 1..Len(orig) : row[j] = orig[j]
    /\ \A j \in (Len(orig) + 1)..width : row[j] = pad_id

\* C9: each row of text_enc, text_dec and labels is the Feature's own sequence
\* followed only by pad_id up to that field's own batch maximum; every label
\* position beyond the original label length holds pad_id and is masked out
C9_RightPadded ==
    pc = "collated" =>
        /\ Len(collated.text_enc) = Len(batch)
        /\ Len(collated.text_dec) = Len(batch)
        /\ Len(collated.labels) = Len(batch)
        /\ Len(collated.loss_mask) = Len(batch)
        /\ \A i \in 1..Len(batch) :
              /\ PaddedTo(collated.text_enc[i], OrigEnc(i), EncWidth)
              /\ PaddedTo(collated.text_dec[i], OrigDec(i), DecWidth)
              /\ PaddedTo(collated.labels[i], OrigLabels(i), LabelWidth)
              /\ Len(collated.loss_mask[i]) = LabelWidth
              /\ \A j \in (Len(OrigLabels(i)) + 1)..LabelWidth :
                    /\ collated.labels[i][j] = pad_id
                    /\ collated.loss_mask[i][j] = 0

\* a batch whose longest encoder sequence and longest label come from different
\* rows, so that both rows are padded, each in another field
C9_Witness ==
    /\ pc = "collated"
    /\ \E i, k \in 1..Len(batch) :
          /\ Len(OrigEnc(i)) > Len(OrigEnc(k))
          /\ Len(OrigLabels(i)) < Len(OrigLabels(k))
          /\ EncWidth # LabelWidth
          /\ collated.text_enc[k][EncWidth] = pad_id
          /\ collated.labels[i][LabelWidth] = pad_id

\* C10: loss_mask[i][j] is 1 at the positions of the original label sequence of
\* row i and 0 behind it, whatever the label tokens are
C10_LossMaskByPosition ==
    pc = "collated" =>
        \A i \in 1..Len(batch) :
            /\ Len(collated.loss_mask[i]) = LabelWidth
            /\ \A j \in 1..LabelWidth :
                  collated.loss_mask[i][j] = IF j <= Len(OrigLabels(i)) THEN 1 ELSE 0

\* a batch with a real label token equal to pad_id that is kept in the loss, next
\* to a row with padded label positions
C10_Witness ==
    /\ pc = "collated"
    /\ \E i, k \in 1..Len(batch) :
          /\ \E j \in 1..Len(OrigLabels(i)) :
                /\ OrigLabels(i)[j] = pad_id
                /\ collated.loss_mask[i][j] = 1
          /\ Len(OrigLabels(k)) < LabelWidth
          /\ collated.loss_mask[k][LabelWidth] = 0

---------------------------------------------------------------------------
(* Properties of the attention masks, checked under Spec *)

\* position p of batch row i lies inside the row's original encoder / decoder
\* sequence, that is, it is not a pad position
RealEnc(i, p) == p <= Len(OrigEnc(i))

RealDec(i, p) == p <= Len(OrigDec(i))

\* C11: enc_mask[row][p][q] is 1 exactly when neither encoder position p nor
\* encoder position q is a pad position of the row, whatever the token values are
C11_EncMaskByPosition ==
    pc = "collated" =>
        \A i \in 1..Len(batch) :
            /\ Len(collated.enc_mask[i]) = EncWidth
            /\ \A p \in 1..EncWidth :
                  /\ Len(collated.enc_mask[i][p]) = EncWidth
                  /\ \A q \in 1..EncWidth :
                        collated.enc_mask[i][p][q] =
                            IF RealEnc(i, p) /\ RealEnc(i, q) THEN 1 ELSE 0

\* C12: dec_mask[row][p][q] is 1 exactly when q <= p and neither decoder position
\* p nor q is a pad position of the row
C12_DecMaskCausalByPosition ==
    pc = "collated" =>
        \A i \in 1..Len(batch) :
            /\ Len(collated.dec_mask[i]) = DecWidth
            /\ \A p \in 1..DecWidth :
                  /\ Len(collated.dec_mask[i][p]) = DecWidth
                  /\ \A q \in 1..DecWidth :
                        collated.dec_mask[i][p][q] =
                            IF q <= p /\ RealDec(i, p) /\ RealDec(i, q) THEN 1 ELSE 0

\* C13: enc_dec_mask has one decoder-width by encoder-width matrix per row, and
\* enc_dec_mask[row][p][q] is 1 exactly when decoder position p and encoder
\* position q are both no pad positions of the row
C13_CrossMaskByPosition ==
    pc = "collated" =>
        /\ Len(collated.enc_dec_mask) = Len(batch)
        /\ \A i \in 1..Len(batch) :
              /\ Len(collated.enc_dec_mask[i]) = DecWidth
              /\ \A p \in 1..DecWidth :
                    /\ Len(collated.enc_dec_mask[i][p]) = EncWidth
                    /\ \A q \in 1..EncWidth :
                          collated.enc_dec_mask[i][p][q] =
                              IF RealDec(i, p) /\ RealEnc(i, q) THEN 1 ELSE 0

---------------------------------------------------------------------------
(* Collating a row alone, checked under Spec *)

\* the rows of the batch have equal encoder lengths and equal decoder/label lengths
EqualLengths ==
    \A i, j \in 1..Len(batch) :
        /\ Len(batch[i].text_enc) = Len(batch[j].text_enc)
        /\ Len(batch[i].text_dec) = Len(batch[j].text_dec)
        /\ Len(batch[i].labels) = Len(batch[j].labels)

\* what collate_fn returns for row i of the batch collated as a singleton batch
Alone(i) == collate_fn(<<batch[i]>>)

\* C14: for a batch whose rows have equal encoder lengths and equal decoder/label
\* lengths, each row of loss_mask, enc_mask, dec_mask and enc_dec_mask equals the
\* mask obtained by collating that row alone as a singleton batch
C14_MasksAsSingleton ==
    (pc = "collated" /\ EqualLengths) =>
        \A i \in 1..Len(batch) :
            /\ collated.loss_mask[i] = Alone(i).loss_mask[1]
            /\ collated.enc_mask[i] = Alone(i).enc_mask[1]
            /\ collated.dec_mask[i] = Alone(i).dec_mask[1]
            /\ collated.enc_dec_mask[i] = Alone(i).enc_dec_mask[1]

\* two rows of equal lengths whose decoder masks differ were collated together
C14_Witness ==
    /\ pc = "collated"
    /\ Len(batch) = MaxBatch
    /\ EqualLengths
    /\ Len(batch[1].text_dec) > 1
    /\ collated.dec_mask[1] # collated.dec_mask[2]
    /\ C14_MasksAsSingleton

---------------------------------------------------------------------------
(* Properties of parsing and of the constructor's errors, checked under SpecParse *)

\* decimal text of a small row index
index_text(i) == <<<<"0", "1", "2", "3", "4", "5", "6", "7", "8", "9">>[i + 1]>>

\* C15 as stated: the identifier of each parsed Example is
\* "{split}-{row_index_in_file}", the row index counted from the header (0) or
\* from the first data row (0), for both profiles
C15_GuidIsSplitAndRowIndex ==
    pc = "ready" =>
        \E first \in {0, 1} :
            \A k \in 1..Len(examples) :
                examples[k].guid = data_type \o <<"-">> \o index_text(k - 1 + first)

\* C15, amended: the identifier of each parsed Example is "{split}-{first cell of
\* its row}", for both profiles; one Example per non-header row, in file order
C15_GuidIsSplitAndFirstCell ==
    pc = "ready" =>
        /\ Len(examples) = Len(lines) - 1
        /\ \A k \in 1..Len(examples) :
              examples[k].guid = data_type \o <<"-">> \o lines[k + 1][1]

\* a file of the xnli profile whose first cells are language codes was parsed,
\* and one of the mnli profile whose index cells do not follow the row order
C15_Witness ==
    /\ pc = "ready"
    /\ Len(examples) = MaxRows
    /\ \/ task_name = "xnli" /\ lines[2][1] = <<"en">>
       \/ task_name = "mnli" /\ lines[2][1] = <<"2">> /\ lines[3][1] = <<"1">>
    /\ C15_GuidIsSplitAndFirstCell

\* some non-header row has fewer columns than the profile of the task reads
HasShortRow ==
    \E k \in 2..Len(lines) :
        Len(lines[k]) < (IF task_name = "mnli" THEN 10 ELSE 8)

\* C16: when the task is registered and a non-header row has fewer columns than
\* its profile requires, construction fails with the error of the short row and
\* the dataset has neither an example list nor a feature list
C16_ShortRowAborts ==
    (pc # "new" /\ task_name \in processors /\ HasShortRow) =>
        /\ pc = "error"
        /\ raised.type = "IndexError"
        /\ examples = <<>>
        /\ features = <<>>

\* a file whose first row is complete and whose second row is short was rejected
C16_Witness ==
    /\ pc = "error"
    /\ task_name \in processors
    /\ Len(lines) = MaxRows + 1
    /\ row_ok(task_name, lines[2])
    /\ ~row_ok(task_name, lines[Len(lines)])
    /\ lines[Len(lines)] # <<>>
    /\ C16_ShortRowAborts

\* C17: with a task name that is not registered, construction fails with an error
\* that reports the registered names, whatever the file holds, and no example
\* or feature is built
C17_UnknownTaskRejectedFirst ==
    (pc # "new" /\ task_name \notin {"mnli", "xnli"}) =>
        /\ pc = "error"
        /\ raised.type = "ValueError"
        /\ raised.names = {"mnli", "xnli"}
        /\ examples = <<>>
        /\ features = <<>>

\* an unregistered task name was rejected although the file has a short row
C17_Witness ==
    /\ pc = "error"
    /\ task_name = "sts-b"
    /\ HasShortRow
    /\ C17_UnknownTaskRejectedFirst

---------------------------------------------------------------------------
(* Reports of truncation, checked under SpecBuild *)

\* placeholders and the whole tokenized prompt of the i-th example, nothing cut
FullQuery(i) ==
    Repeat(pseudo_token_id, templates[1])
        \o text_to_ids(full_sentence(examples[i].text_a, examples[i].text_b))
        \o Repeat(pseudo_token_id, templates[2])

\* the Query Builder dropped tokens of the i-th example
LeftTruncated(i) == Len(BuiltQuery(i)) < Len(FullQuery(i))

\* the Feature Converter dropped tokens of the Query Builder output
RightTruncated(i) == Len(features[i][1]) < Len(BuiltQuery(i))

IsWarning(r) == r.level = "warning"

\* the truncation events of a construction: one for each example cut by the
\* Query Builder and one for each example cut by the Feature Converter
TruncationEvents ==
    Cardinality({i \in 1..Len(features) : LeftTruncated(i)})
        + Cardinality({i \in 1..Len(features) : RightTruncated(i)})

\* C18: construction never fails on a truncation: every example gets its Feature,
\* and the log holds a report for every truncation event of either policy, the
\* left truncation of the Query Builder and the right truncation of the Feature
\* Converter
C18_EveryTruncationEventReported ==
    pc # "new" =>
        /\ pc = "ready"
        /\ raised = NoError
        /\ Len(features) = Len(lines) - 1
        /\ Len(SelectSeq(log, IsWarning)) = TruncationEvents

---------------------------------------------------------------------------
(* Empty sequences in a batch, checked under SpecCollate *)

\* every entry of a two-dimensional mask is 0
AllZero(mask) == \A p \in 1..Len(mask) : \A q \in 1..Len(mask[p]) : mask[p][q] = 0

\* C19: a batch with a zero-length sequence is collated: every row gets masks of
\* the batch widths, and a row with an empty encoder sequence has enc_mask and
\* enc_dec_mask all zero, a row with an empty decoder sequence has dec_mask and
\* enc_dec_mask all zero
C19_EmptySequenceMasksZero ==
    pc = "batched" =>
        \A i \in 1..Len(batch) :
            /\ Len(collated.enc_mask[i]) = EncWidth
            /\ Len(collated.dec_mask[i]) = DecWidth
            /\ Len(collated.enc_dec_mask[i]) = DecWidth
            /\ \A p \in 1..DecWidth : Len(collated.enc_dec_mask[i][p]) = EncWidth
            /\ batch[i].text_enc = <<>> =>
                    AllZero(collated.enc_mask[i]) /\ AllZero(collated.enc_dec_mask[i])
            /\ batch[i].text_dec = <<>> =>
                    AllZero(collated.dec_mask[i]) /\ AllZero(collated.enc_dec_mask[i])

\* a row with an empty encoder sequence was collated with a row with an empty
\* decoder sequence, both widths of the batch positive
C19_Witness ==
    /\ pc = "batched"
    /\ Len(batch) > 1
    /\ batch[1].text_enc = <<>> /\ batch[1].text_dec # <<>>
    /\ batch[2].text_dec = <<>> /\ batch[2].text_enc # <<>>
    /\ \A j \in 1..Len(batch[1].text_dec) : batch[1].text_dec[j] # pad_id
    /\ \A j \in 1..Len(batch[2].text_enc) : batch[2].text_enc[j] # pad_id
    /\ C19_EmptySequenceMasksZero

---------------------------------------------------------------------------
(* Collation leaves the dataset alone, checked under SpecInterleave *)

\* the example and feature lists as the constructor built them
FreshExamples == get_examples(task_name, lines, data_type)

FreshFeatures ==
    convert_examples_to_features(klass, FreshExamples, pseudo_token_id,
                                 max_seq_length, max_seq_length_decoder, templates)

\* what collate_fn of the dataset's class returns for items when run alone
CollatedAlone(items) ==
    IF klass = "TextToTextPTuneDataset" THEN collate_fn(items) ELSE XNli_collate_fn(items)

\* C20: however the steps of the callers' collate_fn calls are interleaved, the
\* example list and the feature list stay as constructed, and every call that
\* has returned returned the Batch collate_fn returns when run alone on the same
\* positions of the dataset as constructed
C20_InterleavedCollationStateless ==
    LET fresh == FreshFeatures IN
    /\ examples = FreshExamples
    /\ features = fresh
    /\ \A c \in Callers :
          pc[c] = "returned" =>
              collated[c].result = CollatedAlone(ItemsAt(fresh, batch[c]))

\* two calls that overlapped in time have both returned: each padded while the
\* other stood between measuring and padding or had padded already, they share a
\* Feature, and one of them padded that Feature's encoder and decoder lists
C20_InterleavedWitness ==
    /\ \A c \in Callers : pc[c] = "returned"
    /\ \E c \in Callers : collated[c].overlapped
    /\ \E c, d \in Callers :
          /\ c # d
          /\ Len(batch[c]) = MaxBatch
          /\ \E i \in 1..Len(batch[c]), k \in 1..Len(batch[d]) :
                /\ batch[c][i] = batch[d][k]
                /\ Len(collated[c].result.text_enc[i]) > Len(features[batch[c][i]][1])
                /\ Len(collated[c].result.text_dec[i]) > Len(features[batch[c][i]][2])
    /\ C20_InterleavedCollationStateless

---------------------------------------------------------------------------
(* The prompt of the mnli profile, checked under SpecBuild *)

\* C21: for the mnli profile, a row whose sentence columns 8 and 9 hold x and y
\* yields an encoder sequence of left_len placeholder ids, the tokenization of
\* "mnli hypothesis: y premise: x" without its overflow at the left, and
\* right_len placeholder ids (stated where the template fits max_seq_length, so
\* that the Feature Converter cuts nothing)
C21_MnliPromptHypothesisFromColumn9 ==
    (pc = "ready" /\ task_name = "mnli") =>
        \A i \in 1..Len(features) :
            LET x    == lines[i + 1][9]
                y    == lines[i + 1][10]
                toks == text_to_ids(<<"mnli", "hypothesis:">> \o y \o <<"premise:">> \o x)
                over == Max(0, Len(toks) + templates[1] + templates[2] - max_seq_length)
            IN  templates[1] + templates[2] <= max_seq_length =>
                    features[i][1] = Repeat(pseudo_token_id, templates[1])
                                        \o DropFirst(toks, over)
                                        \o Repeat(pseudo_token_id, templates[2])

---------------------------------------------------------------------------
(* Rows, Examples and Features correspond one to one, checked under SpecParse *)

\* dataset[idx] of the class that was instantiated
GetItem(feats, idx) ==
    IF klass = "TextToTextPTuneDataset" THEN PTune_getitem(feats, idx)
                                        ELSE XNli_getitem(feats, idx)

\* the examples of a file that holds the header and the i-th data row only
RowAlone(i) == get_examples(task_name, <<lines[1], lines[i + 1]>>, data_type)

\* C22: the header row is skipped and every other row yields one Example and one
\* Feature, in file order: len(dataset) is the number of data rows and dataset[i]
\* is what the i-th data row alone yields
C22_OneFeaturePerRowInOrder ==
    pc = "ready" =>
        /\ Len(examples) = Len(lines) - 1
        /\ Len(features) = Len(examples)
        /\ Dataset_len(examples) = Len(lines) - 1
        /\ \A i \in 1..Len(features) :
              /\ examples[i] = RowAlone(i)[1]
              /\ GetItem(features, i) =
                    GetItem(convert_examples_to_features(klass, RowAlone(i),
                                pseudo_token_id, max_seq_length, max_seq_length_decoder,
                                templates), 1)

\* a file of MaxRows data rows was parsed whose first two rows give different items
C22_Witness ==
    /\ pc = "ready"
    /\ Len(lines) = MaxRows + 1
    /\ Dataset_len(examples) = MaxRows
    /\ GetItem(features, 1).text_enc # GetItem(features, 2).text_enc
    /\ GetItem(features, 1).text_dec # GetItem(features, 2).text_dec
    /\ C22_OneFeaturePerRowInOrder

---------------------------------------------------------------------------
(* The auxiliary field of the XNLI Features, checked under SpecParse *)

\* C25: the auxiliary field of every XNLI Feature is the part of the Example's
\* identifier after the split separator, which is the first cell of its row, also
\* when the split name or the cell contains '-'; collate_fn returns the fields of
\* the batch rows as a parallel list, in order and unpadded
C25_LangIsFirstCell ==
    (pc = "ready" /\ klass = "TextToTextXNliDataset") =>
        /\ \A i \in 1..Len(features) :
              /\ features[i][4] = DropFirst(examples[i].guid, Len(data_type) + 1)
              /\ features[i][4] = lines[i + 1][1]
        /\ Len(features) > 0 =>
              XNli_collate_fn([i \in 1..Len(features) |-> XNli_getitem(features, i)]).lang
                  = [i \in 1..Len(features) |-> lines[i + 1][1]]

---------------------------------------------------------------------------
(* The decoder query at small budgets, checked under SpecBuild *)

\* C23: an empty label text raises nothing and gives the marker-only decoder
\* query, decoder_input_ids = [BOS] and label_ids = [EOS], for every
\* max_seq_length_decoder
C23_EmptyLabelMarkersOnly ==
    pc # "new" =>
        /\ pc = "ready"
        /\ raised = NoError
        /\ \A i \in 1..Len(examples) :
              ContentIds(i) = <<>> =>
                  /\ features[i][2] = <<bos_id>>
                  /\ features[i][3] = <<eos_id>>

\* a Feature of an empty label built with a decoder budget below the two markers
C23_Witness ==
    /\ pc = "ready"
    /\ klass = "TextToTextPTuneDataset"
    /\ max_seq_length_decoder < Len(<<bos_id, eos_id>>)
    /\ \E i \in 1..Len(features) :
          /\ examples[i].label = <<>>
          /\ features[i][2] = <<bos_id>>
          /\ features[i][3] = <<eos_id>>

\* C24: for every label content and every max_seq_length_decoder the decoder
\* query is [BOS], the first max(0, len(content_ids) - overflow) content tokens
\* and [EOS], with overflow = max(0, len(content_ids) + 2 - max_seq_length_decoder),
\* and so it is not longer than max(2, max_seq_length_decoder)
C24_DecoderQueryWithinBudget ==
    pc = "ready" =>
        \A i \in 1..Len(features) :
            LET overflow == Max(0, Len(ContentIds(i)) + 2 - max_seq_length_decoder)
                kept     == FirstN(ContentIds(i), Max(0, Len(ContentIds(i)) - overflow))
            IN  /\ features[i][2] = <<bos_id>> \o kept
                /\ features[i][3] = kept \o <<eos_id>>
                /\ Len(features[i][2]) + 1 <= Max(2, max_seq_length_decoder)

---------------------------------------------------------------------------
(* Properties of GPTQAModel, checked under SpecQA *)

\* C26: with library "huggingface", inference leaves the training/eval mode and
\* the logging verbosity as they were before the call on every exit path, and
\* when a step of the try block raises, that exception is the one that propagates
C26_InferenceRestoresAndPropagates ==
    (qa.call.op = "inference" /\ qa.library = "huggingface") =>
        /\ qa.training = qa.call.before.training
        /\ qa.verbosity = qa.call.before.verbosity
        /\ qa.call.propagated = IF qa.call.arg = PyNone THEN NoException
                                                       ELSE StepException(qa.call.arg)

\* the train or validation setter was last called with a missing config or file
MissingSetup ==
    /\ qa.call.op \in {"setup_training_data", "setup_validation_data"}
    /\ qa.call.arg \in {"no config", "no file", ""}

\* C27: a setup_training_data or setup_validation_data call with a missing config
\* or file leaves the train and validation loaders as they were and sets the test
\* loader to None, whatever setup_test_data established before; and a test
\* loader other than None is only ever assigned by setup_test_data
C27_MissingSetupClearsTestLoader ==
    /\ MissingSetup =>
          /\ qa.train_dl = qa.call.before.train_dl
          /\ qa.validation_dl = qa.call.before.validation_dl
          /\ qa.test_dl = NoLoader
    /\ (qa.test_dl # NoLoader /\ qa.call.op # "setup_test_data") =>
          qa.test_dl = qa.call.before.test_dl

\* a training setup without a file discarded an established test loader, the
\* train and validation loaders being set
C27_Witness ==
    /\ qa.call.op = "setup_training_data"
    /\ qa.call.arg = "no file"
    /\ qa.call.before.test_dl # NoLoader
    /\ qa.test_dl = NoLoader
    /\ qa.train_dl # NoLoader
    /\ qa.validation_dl # NoLoader

---------------------------------------------------------------------------
(* Properties of _get_predictions, checked under SpecPredict *)

\* the examples whose index is below len(unique_ids), 0-based
Processed == 0..(Min(Len(pred.examples), Len(pred.unique_ids)) - 1)

\* positions in the feature list of the features of example e
FeaturesOf(e) == {j \in 1..Len(pred.features) : pred.features[j].example_index = e}

\* the perplexity computed for the feature at position j of the feature list
PerplexityOf(j) ==
    pred.per_sample_perplexity[
        CHOOSE k \in 1..Len(pred.unique_ids) : pred.unique_ids[k] = pred.features[j].unique_id]

\* C28: _get_predictions raises nothing and returns one entry for every example
\* whose index is below len(unique_ids) and none for the others; the entry of an
\* example with features is the prediction of its feature of lowest perplexity,
\* the earliest on ties
C28_BestFeaturePerExample ==
    pc = "predicted" =>
        /\ pred.raised = PyNone
        /\ Len(pred.result) = Cardinality(Processed)
        /\ \A e \in Processed :
              /\ pred.result[e + 1].qas_id = pred.examples[e + 1].qas_id
              /\ FeaturesOf(e) # {} =>
                    \E j \in FeaturesOf(e) :
                        /\ \A h \in FeaturesOf(e) : PerplexityOf(j) <= PerplexityOf(h)
                        /\ \A h \in FeaturesOf(e) : h < j => PerplexityOf(h) # PerplexityOf(j)
                        /\ pred.result[e + 1].prediction.perplexity = PerplexityOf(j)
                        /\ pred.result[e + 1].prediction.feature_index =
                                Cardinality({h \in FeaturesOf(e) : h < j})

====
